---- MODULE Spec2Model ----
(***************************************************************************)
(* A model of gettext-parser (TypeScript port): the PO serializer's string *)
(* escaping and line folding, the PO lexer and token normalizer, and the   *)
(* MO codec.  Text is a sequence of character codes (UTF-16 code units of  *)
(* the ASCII range), so the character classes of the regular expressions   *)
(* of the source are the numeric ranges they are written with.            *)
(***************************************************************************)
EXTENDS Integers, Sequences, FiniteSets, TLC

VARIABLES
    \* ---- PoCompiler._addPOString / foldLine (one call) ----
    valueRaw,        \* _addPOString's valueRaw argument
    foldLength,      \* this._options.foldLength
    value,           \* the escaped value handed to foldLine (str)
    pos,             \* foldLine: pos
    lines,           \* foldLine: lines
    escapeCharacters,\* this._options.escapeCharacters
    fpc,             \* position of the call: "idle" | "start" | "fold" | "join" | "done"
    rendered,        \* the string _addPOString returns
    \* ---- PoParser (one instance) ----
    chunk,           \* the text handed to _lexer
    lexI,            \* _lexer: the loop index i (0-based)
    state,           \* this._state
    escaped,         \* this._escaped
    lex,             \* this._lex; this._node is its last element
    lineNumber,      \* this._lineNumber
    validation,      \* this._validation
    ppc,             \* position of parse(): "idle" | "lexing" | "done"
    result,          \* what parse() returned or threw
    \* ---- po.compile of the parsed table, po.parse of its output, again ----
    cpc,             \* "idle" | "start" | "compiled" | "parsed" | "done"
    compiled,        \* the text po.compile returned for result.table
    parsed,          \* what po.parse returned or threw for compiled
    recompiled,      \* the text po.compile returned for parsed.table
    callerTable,     \* the table object last handed to po.compile, as the call left it
    sort,            \* this._options.sort of the PoCompiler: "false", "true" or "function"
    \* ---- mo.compile of a table, mo.parse of its output, mo.compile again ----
    mpc,             \* "idle" | "start" | "compiled" | "done" | "recompiled"
    moInput,         \* the table as the caller built it
    moTable,         \* the caller's table object (MoCompiler's this._table)
    emitted,         \* the buffer mo.compile returned
    fileContents,    \* the buffer handed to mo.parse (MoParser's this._fileContents)
    moResult,        \* what mo.compile threw, or what mo.parse returned or threw
    moRecompiled,    \* what mo.compile returned for the table mo.parse returned
    callerCharset,   \* the defaultCharset argument of mo.parse
    \* ---- PoParserTransform (one instance), chunks written to it, then end ----
    tpc,             \* "idle" | "writing" | "ended" | "errored"
    toWrite,         \* the chunks not yet written to the stream
    received,        \* the bytes of the chunks written so far
    initialTreshold, \* this.initialTreshold
    adapter,         \* the fields of the transform and of its this._parser
    pushed,          \* the tables handed to this.push
    finalized,       \* how many times _finalize was called
    \* ---- two PoParser instances, their _lexer loops interleaved ----
    parsers,         \* the fields of each instance, and what its parse() gave
    \* ---- PoParser._handleValues and _normalize on pairing records ----
    records,         \* the records _handleKeys returned
    grouped,         \* what _handleValues returned or threw for them
    normalized       \* what _normalize returned or threw for the entries

foldVars == <<valueRaw, foldLength, escapeCharacters, value, pos, lines, fpc, rendered>>

poVars == <<chunk, lexI, state, escaped, lex, lineNumber, validation, ppc, result>>

rtVars == <<cpc, compiled, parsed, recompiled, callerTable, sort>>

moVars == <<mpc, moInput, moTable, emitted, fileContents, moResult, moRecompiled,
           callerCharset>>

streamVars == <<tpc, toWrite, received, initialTreshold, adapter, pushed, finalized>>

duoVars == <<parsers>>

groupVars == <<records, grouped, normalized>>

vars == <<foldVars, poVars, rtVars, moVars, streamVars, duoVars, groupVars>>

----------------------------------------------------------------------------
(* Bounds of the model *)

MaxValLen == 4       \* longest raw value handed to _addPOString
MaxFold == 3         \* largest fold width tried

----------------------------------------------------------------------------
(* Characters *)

Chr == [tab |-> 9, nl |-> 10, cr |-> 13, sp |-> 32, dq |-> 34, hash |-> 35,
        sq |-> 39, colon |-> 58, bs |-> 92, tilde |-> 126,
        a |-> 97, n |-> 110, r |-> 114, t |-> 116]

Min(S) == CHOOSE x \in S : \A y \in S : x <= y
Max(S) == CHOOSE x \in S : \A y \in S : x >= y

\* regular expression class \s (its ASCII part, U+2028 and U+2029)
IsSpace(c) == c \in {9, 10, 11, 12, 13, 32, 8232, 8233}

\* the class [\x21-\x2f0-9\x5b-\x60\x7b-\x7e] of foldLine
IsSpecial(c) ==
    \/ c >= 33 /\ c <= 47
    \/ c >= 48 /\ c <= 57
    \/ c >= 91 /\ c <= 96
    \/ c >= 123 /\ c <= 126

\* what the regular expression "." does not match
IsLineTerminator(c) == c \in {10, 13, 8232, 8233}

RECURSIVE Cat(_)
Cat(ss) == IF ss = <<>> THEN <<>> ELSE Head(ss) \o Cat(Tail(ss))

RECURSIVE Join(_, _)
Join(ss, sep) ==
    IF ss = <<>> THEN <<>>
    ELSE IF Len(ss) = 1 THEN ss[1]
    ELSE ss[1] \o sep \o Join(Tail(ss), sep)

\* String.prototype.replace(/c/g, rep) for a one-character pattern
RECURSIVE ReplaceAll(_, _, _)
ReplaceAll(s, c, rep) ==
    IF s = <<>> THEN <<>>
    ELSE (IF Head(s) = c THEN rep ELSE <<Head(s)>>) \o ReplaceAll(Tail(s), c, rep)

\* String.prototype.substring(start) : a negative start counts as 0
JsSubstringFrom(s, start) ==
    LET st == IF start < 0 THEN 0 ELSE IF start > Len(s) THEN Len(s) ELSE start
    IN  SubSeq(s, st + 1, Len(s))

\* String.prototype.substring(start, end), 0-based, end exclusive, clamped
JsSubstring(s, start, end) ==
    LET cl(x) == IF x < 0 THEN 0 ELSE IF x > Len(s) THEN Len(s) ELSE x
        lo == IF cl(start) <= cl(end) THEN cl(start) ELSE cl(end)
        hi == IF cl(start) <= cl(end) THEN cl(end) ELSE cl(start)
    IN  SubSeq(s, lo + 1, hi)

----------------------------------------------------------------------------
(* foldLine (shared.ts).  A regular expression match is <<>> for null and  *)
(* <<m>> for a match whose match[0] is m.                                  *)

NoLineTerminatorIn(s, from, to) == \A k \in from..to : ~IsLineTerminator(s[k])

\* /.*?\\n/.exec(cur) : leftmost start, then the shortest run of "." up to
\* a backslash followed by n
ExecFirstEscapedNewline(cur) ==
    LET ends(s) == {e \in s..(Len(cur) - 1) :
                        /\ cur[e] = Chr.bs
                        /\ cur[e + 1] = Chr.n
                        /\ NoLineTerminatorIn(cur, s, e - 1)}
        starts == {s \in 1..Len(cur) : ends(s) # {}}
    IN  IF starts = {} THEN <<>>
        ELSE LET s == Min(starts) IN <<SubSeq(cur, s, Min(ends(s)) + 1)>>

\* /.*C+/.exec(cur) for a character class C, given as the set inC of the
\* positions of cur that hold a character of C : leftmost start, the
\* longest run of "." that is still followed by a character of C, then the
\* longest run of C
ExecGreedyThenClass(cur, inC) ==
    LET heads(s) == {j \in s..Len(cur) :
                        j \in inC /\ NoLineTerminatorIn(cur, s, j - 1)}
        starts == {s \in 1..Len(cur) : heads(s) # {}}
    IN  IF starts = {} THEN <<>>
        ELSE LET s == Min(starts)
                 j == Max(heads(s))
                 e == Max({k \in j..Len(cur) : \A m \in j..k : m \in inC})
             IN  <<SubSeq(cur, s, e)>>

\* /.*\s+/.exec(cur)
ExecGreedyThenSpace(cur) ==
    ExecGreedyThenClass(cur, {k \in 1..Len(cur) : IsSpace(cur[k])})

\* /.*[\x21-\x2f0-9\x5b-\x60\x7b-\x7e]+/.exec(cur)
ExecGreedyThenSpecial(cur) ==
    ExecGreedyThenClass(cur, {k \in 1..Len(cur) : IsSpecial(cur[k])})

\* /[^\s\x21-\x2f0-9\x5b-\x60\x7b-\x7e]/.test(m)
HasPlainChar(m) == \E k \in 1..Len(m) : ~IsSpace(m[k]) /\ ~IsSpecial(m[k])

\* curLine.substring(-1) === "\\" : the test that guards the loop which
\* lengthens a line ending in a partial escape
EndsWithPartialEscape(curLine) == JsSubstringFrom(curLine, -1) = <<Chr.bs>>

\* the inner while loop, curLine being the substring taken: each round
\* appends one character, which ends the loop unless the line is still a
\* lone backslash
FoldLineLengthen(str, p, curLine) ==
    IF EndsWithPartialEscape(curLine) /\ p + Len(curLine) < Len(str)
        THEN curLine \o <<str[p + Len(curLine) + 1]>>
        ELSE curLine

\* the second match of an iteration: of whitespace, else of a special
\* character
FoldLineBreakMatch(curLine, mws) ==
    IF mws # <<>> THEN mws ELSE ExecGreedyThenSpecial(curLine)

\* the line an iteration pushes, given its two matches
FoldLinePick(str, p, curLine, m1, m2) ==
    IF m1 # <<>> THEN m1[1]
    ELSE IF p + Len(curLine) < Len(str) /\ m2 # <<>> /\ HasPlainChar(m2[1]) THEN m2[1]
    ELSE curLine

\* the line an iteration pushes, curLine being the substring lengthened
FoldLineCut(str, p, curLine) ==
    FoldLinePick(str, p, curLine, ExecFirstEscapedNewline(curLine),
                 FoldLineBreakMatch(curLine, ExecGreedyThenSpace(curLine)))

\* one iteration of foldLine's outer loop, from position p (0-based) of
\* str : the line it pushes
FoldLineIteration(str, maxLen, p) ==
    FoldLineCut(str, p, FoldLineLengthen(str, p, JsSubstring(str, p, p + maxLen)))

\* the outer loop of foldLine, ls being the lines pushed so far and pos the
\* sum of their lengths
RECURSIVE FoldFrom(_, _, _)
FoldFrom(str, maxLen, ls) ==
    IF Len(Cat(ls)) >= Len(str) THEN ls
    ELSE FoldFrom(str, maxLen, Append(ls, FoldLineIteration(str, maxLen, Len(Cat(ls)))))

\* foldLine(str, maxLen), for maxLen >= 1
foldLine(str, maxLen) == FoldFrom(str, maxLen, <<>>)

----------------------------------------------------------------------------
(* PoCompiler._addPOString *)

\* the escaping of lines 189-198, escapeCharacters being on
EscapeValue(v, esc) ==
    LET e1 == ReplaceAll(v, Chr.bs, <<Chr.bs, Chr.bs>>)
        e2 == ReplaceAll(e1, Chr.dq, <<Chr.bs, Chr.dq>>)
        e3 == ReplaceAll(e2, Chr.tab, <<Chr.bs, Chr.t>>)
        e4 == ReplaceAll(e3, Chr.cr, <<Chr.bs, Chr.r>>)
        e == IF esc THEN e4 ELSE v
    IN  ReplaceAll(e, Chr.nl, <<Chr.bs, Chr.n>>)

\* value.split(/\\n/g)
RECURSIVE SplitOnEscapedNewline(_, _)
SplitOnEscapedNewline(s, acc) ==
    IF s = <<>> THEN <<acc>>
    ELSE IF Len(s) >= 2 /\ s[1] = Chr.bs /\ s[2] = Chr.n
        THEN <<acc>> \o SplitOnEscapedNewline(SubSeq(s, 3, Len(s)), <<>>)
        ELSE SplitOnEscapedNewline(Tail(s), Append(acc, Head(s)))

\* lines 209-218: the lines of a value when folding is off
UnfoldedLines(v, esc) ==
    IF ~esc THEN <<v>>
    ELSE LET parts == SplitOnEscapedNewline(v, <<>>)
             marked == [i \in 1..Len(parts) |->
                            IF i < Len(parts) THEN parts[i] \o <<Chr.bs, Chr.n>>
                            ELSE parts[i]]
         IN  IF marked[Len(marked)] = <<>>
                THEN SubSeq(marked, 1, Len(marked) - 1)
                ELSE marked

\* lines 221-225: the key and the quoted line or lines
RenderPOString(key, ls, eol) ==
    IF Len(ls) < 2
        THEN key \o <<Chr.sp, Chr.dq>> \o (IF ls = <<>> THEN <<>> ELSE ls[1]) \o <<Chr.dq>>
        ELSE key \o <<Chr.sp, Chr.dq, Chr.dq>> \o eol \o <<Chr.dq>>
                 \o Join(ls, <<Chr.dq>> \o eol \o <<Chr.dq>>) \o <<Chr.dq>>

----------------------------------------------------------------------------
(* One call of _addPOString("msgstr", valueRaw), the loop of foldLine      *)
(* being taken one iteration at a time.                                    *)

kwMsgstr == <<109, 115, 103, 115, 116, 114>>
eolDefault == <<Chr.nl>>

\* the characters raw values are made of: a n space backslash quote newline
ValueAlphabet == {Chr.a, Chr.n, Chr.sp, Chr.bs, Chr.dq, Chr.nl}

RECURSIVE SeqsUpTo(_, _)
SeqsUpTo(S, n) ==
    IF n = 0 THEN {<<>>}
    ELSE LET shorter == SeqsUpTo(S, n - 1)
         IN  shorter \cup {Append(s, c) : s \in {x \in shorter : Len(x) = n - 1}, c \in S}

FoldIdle ==
    /\ valueRaw = <<>> /\ foldLength = 0 /\ escapeCharacters = TRUE
    /\ value = <<>> /\ pos = 0 /\ lines = <<>> /\ fpc = "idle" /\ rendered = <<>>

PoIdle ==
    /\ chunk = <<>> /\ lexI = 0 /\ state = "none" /\ escaped = FALSE /\ lex = <<>>
    /\ lineNumber = 1 /\ validation = FALSE /\ ppc = "idle" /\ result = [kind |-> "none"]

RtIdle ==
    /\ cpc = "idle" /\ compiled = <<>> /\ parsed = [kind |-> "none"] /\ recompiled = <<>>
    /\ callerTable = <<>>
    /\ sort = "false"

MoIdle ==
    /\ mpc = "idle" /\ moInput = <<>> /\ moTable = <<>> /\ fileContents = <<>>
    /\ emitted = <<>>
    /\ moResult = [kind |-> "none"]
    /\ moRecompiled = [kind |-> "none"]
    /\ callerCharset = <<>>

StreamIdle ==
    /\ tpc = "idle" /\ toWrite = <<>> /\ received = <<>> /\ initialTreshold = 0
    /\ adapter = <<>> /\ pushed = <<>> /\ finalized = 0

DuoIdle == parsers = <<>>

GroupIdle ==
    /\ records = <<>> /\ grouped = [kind |-> "none"] /\ normalized = [kind |-> "none"]

InitFold ==
    /\ valueRaw \in SeqsUpTo(ValueAlphabet, MaxValLen)
    /\ foldLength \in 0..MaxFold
    /\ escapeCharacters \in BOOLEAN
    /\ value = <<>> /\ pos = 0 /\ lines = <<>> /\ rendered = <<>>
    /\ fpc = "start"
    /\ PoIdle
    /\ RtIdle
    /\ MoIdle
    /\ StreamIdle
    /\ DuoIdle
    /\ GroupIdle

\* lines 184-204: escape, then enter foldLine
AddPOStringEscape ==
    /\ fpc = "start"
    /\ value' = EscapeValue(valueRaw, escapeCharacters)
    /\ IF foldLength > 0
          THEN /\ pos' = 0 /\ lines' = <<>> /\ fpc' = "fold"
          ELSE /\ pos' = 0
               /\ lines' = UnfoldedLines(value', escapeCharacters)
               /\ fpc' = "join"
    /\ UNCHANGED <<valueRaw, foldLength, escapeCharacters, rendered, poVars, rtVars, moVars,
                   streamVars, duoVars, groupVars>>

\* foldLine, one round of "while (pos < len)"
FoldLineStep ==
    /\ fpc = "fold"
    /\ pos < Len(value)
    /\ LET curLine == FoldLineIteration(value, foldLength, pos)
       IN  /\ lines' = Append(lines, curLine)
           /\ pos' = pos + Len(curLine)
    /\ UNCHANGED <<valueRaw, foldLength, escapeCharacters, value, fpc, rendered, poVars, rtVars, moVars,
                   streamVars, duoVars, groupVars>>

\* foldLine returns
FoldLineReturn ==
    /\ fpc = "fold"
    /\ pos >= Len(value)
    /\ fpc' = "join"
    /\ UNCHANGED <<valueRaw, foldLength, escapeCharacters, value, pos, lines, rendered, poVars, rtVars, moVars,
                   streamVars, duoVars, groupVars>>

\* lines 221-225
AddPOStringReturn ==
    /\ fpc = "join"
    /\ rendered' = RenderPOString(kwMsgstr, lines, eolDefault)
    /\ fpc' = "done"
    /\ UNCHANGED <<valueRaw, foldLength, escapeCharacters, value, pos, lines, poVars, rtVars, moVars,
                   streamVars, duoVars, groupVars>>

NextFold ==
    \/ AddPOStringEscape
    \/ FoldLineStep
    \/ FoldLineReturn
    \/ AddPOStringReturn

SpecFold == InitFold /\ [][NextFold]_vars

----------------------------------------------------------------------------
(* Escape pairs of an escaped value *)

\* position i of s (1-based) holds the backslash that opens an escape pair
RECURSIVE OpensEscapePair(_, _)
OpensEscapePair(s, i) ==
    /\ i >= 1 /\ i <= Len(s)
    /\ s[i] = Chr.bs
    /\ (i = 1 \/ ~OpensEscapePair(s, i - 1))

ContainsEscapedNewline(s) ==
    \E i \in 1..(Len(s) - 1) : OpensEscapePair(s, i) /\ s[i + 1] = Chr.n

\* the offsets in the folded value at which a line ends and another begins
LineBreaks(ls) == {Len(Cat(SubSeq(ls, 1, k))) : k \in 1..(Len(ls) - 1)}

\* C1: for an escaped value that contains backslash-n and a fold width of
\* at least 2, no folded line ends with the backslash of an escape pair
\* whose second character begins the next line.
C1_NoSplitEscape ==
    (/\ fpc \in {"join", "done"}
     /\ escapeCharacters
     /\ foldLength >= 2
     /\ ContainsEscapedNewline(value))
    => \A b \in LineBreaks(lines) : ~OpensEscapePair(Cat(lines), b)

----------------------------------------------------------------------------
(* PoParser._lexer *)

kwMsgctxt == <<109, 115, 103, 99, 116, 120, 116>>
kwMsgid == <<109, 115, 103, 105, 100>>
kwMsgidPlural == <<109, 115, 103, 105, 100, 95, 112, 108, 117, 114, 97, 108>>

\* this.symbols.quotes, comments, whitespace and key
IsQuote(c) == c \in {Chr.dq, Chr.sq}
IsCommentStart(c) == c = Chr.hash
IsDigit(c) == c >= 48 /\ c <= 57
IsWord(c) == IsDigit(c) \/ (c >= 65 /\ c <= 90) \/ c = 95 \/ (c >= 97 /\ c <= 122)
IsKeyChar(c) == IsWord(c) \/ c \in {45, 91, 93}

\* this.symbols.keyNames : /^(?:msgctxt|msgid(?:_plural)?|msgstr(?:\[\d+])?)$/
MatchesKeyNames(v) ==
    \/ v \in {kwMsgctxt, kwMsgid, kwMsgidPlural, kwMsgstr}
    \/ /\ Len(v) >= 9
       /\ SubSeq(v, 1, 6) = kwMsgstr
       /\ v[7] = 91
       /\ v[Len(v)] = 93
       /\ \A k \in 8..(Len(v) - 1) : IsDigit(v[k])

Token(type, val, quote, obsolete) ==
    [type |-> type, value |-> val, quote |-> quote, obsolete |-> obsolete]

\* this._node.value += c
AppendToNode(lx, c) == [lx EXCEPT ![Len(lx)].value = Append(@, c)]

\* One round of the for loop of _lexer on the character chr: the fields of
\* the parser after it, whether the index is stepped back (i--), and the
\* error thrown, if any (<<>> for none).
LexerIteration(st, esc, lx, ln, chr) ==
    LET ln1 == IF chr = Chr.nl THEN ln + 1 ELSE ln
        same == [state |-> st, escaped |-> esc, lex |-> lx, lineNumber |-> ln1,
                 back |-> FALSE, thrown |-> <<>>]
        node == lx[Len(lx)]
    IN  CASE st \in {"none", "obsolete"} ->
                IF IsQuote(chr)
                    THEN [same EXCEPT !.lex = Append(lx, Token("string", <<>>, chr, FALSE)),
                                      !.state = "string"]
                ELSE IF IsCommentStart(chr)
                    THEN [same EXCEPT !.lex = Append(lx, Token("comments", <<>>, 0, FALSE)),
                                      !.state = "comments"]
                ELSE IF ~IsSpace(chr)
                    THEN [same EXCEPT !.lex = Append(lx, Token("key", <<chr>>, 0, st = "obsolete")),
                                      !.state = "key"]
                ELSE same
          [] st = "comments" ->
                IF chr = Chr.nl THEN [same EXCEPT !.state = "none"]
                ELSE IF chr = Chr.tilde /\ node.value = <<>>
                    THEN [same EXCEPT !.lex = AppendToNode(lx, chr), !.state = "obsolete"]
                ELSE IF chr # Chr.cr THEN [same EXCEPT !.lex = AppendToNode(lx, chr)]
                ELSE same
          [] st = "string" ->
                IF esc
                    THEN LET c == CASE chr = Chr.t -> Chr.tab
                                    [] chr = Chr.n -> Chr.nl
                                    [] chr = Chr.r -> Chr.cr
                                    [] OTHER -> chr
                         IN  [same EXCEPT !.lex = AppendToNode(lx, c), !.escaped = FALSE]
                ELSE IF chr = node.quote THEN [same EXCEPT !.state = "none", !.escaped = FALSE]
                ELSE IF chr = Chr.bs THEN [same EXCEPT !.escaped = TRUE]
                ELSE [same EXCEPT !.lex = AppendToNode(lx, chr), !.escaped = FALSE]
          [] st = "key" ->
                IF ~IsKeyChar(chr)
                    THEN IF ~MatchesKeyNames(node.value)
                            THEN [same EXCEPT !.thrown =
                                    <<[kind |-> "Syntax", lineNumber |-> ln1, key |-> node.value]>>]
                            ELSE [same EXCEPT !.state = "none", !.back = TRUE]
                    ELSE [same EXCEPT !.lex = AppendToNode(lx, chr)]

\* The rounds of the for loop of _lexer spent on one character: one, or
\* two when the first steps the index back.  s holds the fields of the
\* parser, the index of the character and the error thrown, if any.
LexerSecondRound(r, chr) ==
    IF r.thrown = <<>> /\ r.back
        THEN LexerIteration(r.state, r.escaped, r.lex, r.lineNumber, chr)
        ELSE r

LexerAdvance(s, last) ==
    [state |-> last.state, escaped |-> last.escaped, lex |-> last.lex,
     lineNumber |-> last.lineNumber,
     index |-> IF last.thrown = <<>> THEN s.index + 1 ELSE s.index,
     thrown |-> last.thrown]

LexerCharacter(s, chr) ==
    LexerAdvance(s, LexerSecondRound(LexerIteration(s.state, s.escaped, s.lex,
                                                    s.lineNumber, chr), chr))

\* the for loop of _lexer on the characters lo+1 .. hi of text (evaluated
\* by halves, which gives what the loop gives one character after another)
RECURSIVE RunLexerRange(_, _, _, _)
RunLexerRange(text, lo, hi, s) ==
    IF s.thrown # <<>> \/ lo >= hi THEN s
    ELSE IF hi = lo + 1 THEN LexerCharacter(s, text[hi])
    ELSE LET mid == (lo + hi) \div 2
             half == RunLexerRange(text, lo, mid, s)
         IN  RunLexerRange(text, mid, hi, half)

\* _lexer(chunk) from index k (0-based) to the end of the chunk, or to the
\* throw
RunLexer(text, k, st, esc, lx, ln) ==
    RunLexerRange(text, k, Len(text),
                  [state |-> st, escaped |-> esc, lex |-> lx, lineNumber |-> ln,
                   index |-> k, thrown |-> <<>>])

----------------------------------------------------------------------------
(* Strings *)

\* String.prototype.split(c) for a one-character separator
RECURSIVE SplitOn(_, _, _)
SplitOn(s, c, acc) ==
    IF s = <<>> THEN <<acc>>
    ELSE IF Head(s) = c THEN <<acc>> \o SplitOn(Tail(s), c, <<>>)
    ELSE SplitOn(Tail(s), c, Append(acc, Head(s)))

Split(s, c) == SplitOn(s, c, <<>>)

\* s.replace(/^\s+/, "")
RECURSIVE StripLeft(_)
StripLeft(s) == IF s # <<>> /\ IsSpace(Head(s)) THEN StripLeft(Tail(s)) ELSE s

RECURSIVE StripRight(_)
StripRight(s) ==
    IF s # <<>> /\ IsSpace(s[Len(s)]) THEN StripRight(SubSeq(s, 1, Len(s) - 1)) ELSE s

\* String.prototype.trim
Trim(s) == StripRight(StripLeft(s))

\* String.prototype.toLowerCase (ASCII)
ToLower(s) == [k \in 1..Len(s) |-> IF s[k] >= 65 /\ s[k] <= 90 THEN s[k] + 32 ELSE s[k]]

----------------------------------------------------------------------------
(* PoParser._finalize, stage by stage.  An optional value is <<>> when it  *)
(* is undefined and <<v>> when it is v.                                    *)

\* _joinStringValues
RECURSIVE JoinStringValues(_, _)
JoinStringValues(tokens, response) ==
    IF tokens = <<>> THEN response
    ELSE LET tok == Head(tokens)
             n == Len(response)
         IN  IF n > 0 /\ tok.type = "string" /\ response[n].type = "string"
                THEN JoinStringValues(Tail(tokens),
                        [response EXCEPT ![n].value = @ \o tok.value])
             ELSE IF n > 0 /\ tok.type = "comments" /\ response[n].type = "comments"
                THEN JoinStringValues(Tail(tokens),
                        [response EXCEPT ![n].value = @ \o <<Chr.nl>> \o tok.value])
             ELSE JoinStringValues(Tail(tokens), Append(response, tok))

NoComment == [translator |-> <<>>, reference |-> <<>>, extracted |-> <<>>,
              flag |-> <<>>, previous |-> <<>>]

\* the lines of a comment that fall into one field, in order
RECURSIVE CommentLinesOf(_, _)
CommentLinesOf(ls, field) ==
    IF ls = <<>> THEN <<>>
    ELSE LET line == Head(ls)
             first == IF line = <<>> THEN 0 ELSE line[1]
             kind == CASE first = 58 -> "reference"
                       [] first = 46 -> "extracted"
                       [] first = 44 -> "flag"
                       [] first = 124 -> "previous"
                       [] first = Chr.tilde -> "obsolete"
                       [] OTHER -> "translator"
             text == CASE kind = "reference" -> Trim(Tail(line))
                       [] kind = "translator" -> StripLeft(line)
                       [] OTHER -> StripLeft(Tail(line))
         IN  (IF kind = field THEN <<text>> ELSE <<>>) \o CommentLinesOf(Tail(ls), field)

\* _parseComments on one comment token: the object stored in node.value
ParseComment(text) ==
    LET ls == Split(text, Chr.nl)
        fieldOf(f) == LET got == CommentLinesOf(ls, f)
                      IN  IF got = <<>> THEN <<>> ELSE <<Join(got, <<Chr.nl>>)>>
    IN  [translator |-> fieldOf("translator"), reference |-> fieldOf("reference"),
         extracted |-> fieldOf("extracted"), flag |-> fieldOf("flag"),
         previous |-> fieldOf("previous")]

\* _handleKeys: one record per KEY token, with the STRING tokens after it
RECURSIVE HandleKeys(_, _, _)
HandleKeys(tokens, k, response) ==
    IF k > Len(tokens) THEN response
    ELSE LET tok == tokens[k]
             n == Len(response)
         IN  IF tok.type = "key"
                THEN HandleKeys(tokens, k + 1, Append(response,
                        [key |-> tok.value,
                         obsolete |-> tok.obsolete,
                         comments |-> IF k > 1 /\ tokens[k - 1].type = "comments"
                                         THEN <<ParseComment(tokens[k - 1].value)>>
                                         ELSE <<>>,
                         value |-> <<>>]))
             ELSE IF tok.type = "string" /\ n > 0
                THEN HandleKeys(tokens, k + 1, [response EXCEPT ![n].value = @ \o tok.value])
             ELSE HandleKeys(tokens, k + 1, response)

\* a mutation of HandleValues: a msgid record leaves the pending context and
\* comments as they are
RECURSIVE HandleValuesSticky(_, _, _, _, _, _)
HandleValuesSticky(recs, k, response, curContext, curComments, strict) ==
    IF k > Len(recs) THEN [entries |-> response, thrown |-> <<>>]
    ELSE
    LET rec == recs[k]
        key == ToLower(rec.key)
        n == Len(response)
        \* "if (tokens[i].comments && !lastNode.comments) lastNode.comments = ..."
        withComments(resp) ==
            IF n > 0 /\ rec.comments # <<>> /\ resp[n].comments = <<>>
                THEN [resp EXCEPT ![n].comments = rec.comments]
                ELSE resp
    IN  IF key = kwMsgctxt
            THEN HandleValuesSticky(recs, k + 1, response, rec.value, rec.comments, strict)
        ELSE IF key = kwMsgid
            THEN LET own == IF curComments # <<>> THEN curComments ELSE rec.comments
                     node == [msgid |-> rec.value,
                              obsolete |-> rec.obsolete,
                              msgctxt |-> IF curContext # <<>> THEN <<curContext>> ELSE <<>>,
                              msgid_plural |-> <<>>,
                              msgstr |-> <<>>,
                              comments |-> own]
                 IN  HandleValuesSticky(recs, k + 1, Append(response, node), curContext,
                                        curComments, strict)
        ELSE IF key = kwMsgidPlural
            THEN IF n > 0 /\ strict /\ response[n].msgid_plural # <<>>
                    THEN [entries |-> response,
                          thrown |-> <<[kind |-> "Duplicate", what |-> "msgid_plural",
                                        at |-> n, obsolete |-> response[n].obsolete]>>]
                 ELSE IF n = 0 /\ rec.comments # <<>>
                    \* lastNode is null: "lastNode.comments = ..." throws
                    THEN [entries |-> response,
                          thrown |-> <<[kind |-> "TypeError", what |-> "lastNode.comments",
                                        at |-> 0, obsolete |-> rec.obsolete]>>]
                 ELSE HandleValuesSticky(recs, k + 1,
                        withComments(IF n > 0
                                        THEN [response EXCEPT ![n].msgid_plural = <<rec.value>>]
                                        ELSE response),
                        <<>>, <<>>, strict)
        ELSE IF Len(key) >= 6 /\ SubSeq(key, 1, 6) = kwMsgstr
            THEN HandleValuesSticky(recs, k + 1,
                    withComments(IF n > 0
                                    THEN [response EXCEPT ![n].msgstr =
                                            IF @ = <<>> THEN <<<<rec.value>>>>
                                            ELSE <<Append(@[1], rec.value)>>]
                                    ELSE response),
                    <<>>, <<>>, strict)
        ELSE HandleValuesSticky(recs, k + 1, response, curContext, curComments, strict)

\* _handleValues: the entries, or the error thrown.  lastNode is the last
\* element of response.
RECURSIVE HandleValues(_, _, _, _, _, _)
HandleValues(recs, k, response, curContext, curComments, strict) ==
    IF k > Len(recs) THEN [entries |-> response, thrown |-> <<>>]
    ELSE
    LET rec == recs[k]
        key == ToLower(rec.key)
        n == Len(response)
        \* "if (tokens[i].comments && !lastNode.comments) lastNode.comments = ..."
        withComments(resp) ==
            IF n > 0 /\ rec.comments # <<>> /\ resp[n].comments = <<>>
                THEN [resp EXCEPT ![n].comments = rec.comments]
                ELSE resp
    IN  IF key = kwMsgctxt
            THEN HandleValues(recs, k + 1, response, rec.value, rec.comments, strict)
        ELSE IF key = kwMsgid
            THEN LET own == IF curComments # <<>> THEN curComments ELSE rec.comments
                     node == [msgid |-> rec.value,
                              obsolete |-> rec.obsolete,
                              msgctxt |-> IF curContext # <<>> THEN <<curContext>> ELSE <<>>,
                              msgid_plural |-> <<>>,
                              msgstr |-> <<>>,
                              comments |-> own]
                 IN  HandleValues(recs, k + 1, Append(response, node), <<>>, <<>>, strict)
        ELSE IF key = kwMsgidPlural
            THEN IF n > 0 /\ strict /\ response[n].msgid_plural # <<>>
                    THEN [entries |-> response,
                          thrown |-> <<[kind |-> "Duplicate", what |-> "msgid_plural",
                                        at |-> n, obsolete |-> response[n].obsolete]>>]
                 ELSE IF n = 0 /\ rec.comments # <<>>
                    \* lastNode is null: "lastNode.comments = ..." throws
                    THEN [entries |-> response,
                          thrown |-> <<[kind |-> "TypeError", what |-> "lastNode.comments",
                                        at |-> 0, obsolete |-> rec.obsolete]>>]
                 ELSE HandleValues(recs, k + 1,
                        withComments(IF n > 0
                                        THEN [response EXCEPT ![n].msgid_plural = <<rec.value>>]
                                        ELSE response),
                        <<>>, <<>>, strict)
        ELSE IF Len(key) >= 6 /\ SubSeq(key, 1, 6) = kwMsgstr
            THEN HandleValues(recs, k + 1,
                    withComments(IF n > 0
                                    THEN [response EXCEPT ![n].msgstr =
                                            IF @ = <<>> THEN <<<<rec.value>>>>
                                            ELSE <<Append(@[1], rec.value)>>]
                                    ELSE response),
                    <<>>, <<>>, strict)
        ELSE HandleValues(recs, k + 1, response, curContext, curComments, strict)

----------------------------------------------------------------------------
(* Headers (shared.ts) *)

kwPluralForms == <<80, 108, 117, 114, 97, 108, 45, 70, 111, 114, 109, 115>>
kwContentType == <<67, 111, 110, 116, 101, 110, 116, 45, 84, 121, 112, 101>>
kwPotCreationDate == <<80, 79, 84, 45, 67, 114, 101, 97, 116, 105, 111, 110, 45, 68, 97, 116, 101>>
kwNplurals == <<110, 112, 108, 117, 114, 97, 108, 115>>
kwCharset == <<99, 104, 97, 114, 115, 101, 116>>
kwUtf8 == <<117, 116, 102, 45, 56>>
kwLatin1 == <<105, 115, 111, 45, 56, 56, 53, 57, 45, 49>>
kwAscii == <<97, 115, 99, 105, 105>>

\* HEADERS : lower-case header name -> canonical header name
HEADERS == {
    [lower |-> ToLower(name), name |-> name] : name \in {
        <<80, 114, 111, 106, 101, 99, 116, 45, 73, 100, 45, 86, 101, 114, 115, 105, 111, 110>>,
        <<82, 101, 112, 111, 114, 116, 45, 77, 115, 103, 105, 100, 45, 66, 117, 103, 115, 45, 84, 111>>,
        kwPotCreationDate,
        <<80, 79, 45, 82, 101, 118, 105, 115, 105, 111, 110, 45, 68, 97, 116, 101>>,
        <<76, 97, 115, 116, 45, 84, 114, 97, 110, 115, 108, 97, 116, 111, 114>>,
        <<76, 97, 110, 103, 117, 97, 103, 101, 45, 84, 101, 97, 109>>,
        <<76, 97, 110, 103, 117, 97, 103, 101>>,
        kwContentType,
        <<67, 111, 110, 116, 101, 110, 116, 45, 84, 114, 97, 110, 115, 102, 101, 114, 45, 69, 110, 99, 111, 100, 105, 110, 103>>,
        kwPluralForms}}

HeadersHas(lowerKey) == \E h \in HEADERS : h.lower = lowerKey
HeadersGet(lowerKey) == (CHOOSE h \in HEADERS : h.lower = lowerKey).name

\* An object with string keys, in insertion order: a sequence of
\* [key, val] with distinct keys.
MapHas(m, k) == \E j \in 1..Len(m) : m[j].key = k
MapGet(m, k) == m[CHOOSE j \in 1..Len(m) : m[j].key = k].val
MapPut(m, k, v) ==
    IF MapHas(m, k)
        THEN [j \in 1..Len(m) |-> IF m[j].key = k THEN [key |-> k, val |-> v] ELSE m[j]]
        ELSE Append(m, [key |-> k, val |-> v])
MapKeys(m) == {m[j].key : j \in 1..Len(m)}

\* parseHeader(str)
RECURSIVE ParseHeaderLines(_, _)
ParseHeaderLines(ls, headers) ==
    IF ls = <<>> THEN headers
    ELSE LET parts == Split(Head(ls), Chr.colon)
             key == Trim(parts[1])
             val == Trim(Join(Tail(parts), <<Chr.colon>>))
             name == IF HeadersHas(ToLower(key)) THEN HeadersGet(ToLower(key)) ELSE key
         IN  IF key # <<>>
                THEN ParseHeaderLines(Tail(ls), MapPut(headers, name, val))
                ELSE ParseHeaderLines(Tail(ls), headers)

parseHeader(str) == ParseHeaderLines(Split(str, Chr.nl), <<>>)

\* Number.parseInt of a run of decimal digits
RECURSIVE DigitsValue(_, _)
DigitsValue(ds, acc) ==
    IF ds = <<>> THEN acc ELSE DigitsValue(Tail(ds), 10 * acc + (Head(ds) - 48))

\* /nplurals\s*=\s*(\d+)/ on str: <<>> for no match, else <<the digits>>
MatchNplurals(str) ==
    LET skipSpace(k) == Min({j \in k..(Len(str) + 1) :
                                j = Len(str) + 1 \/ ~IsSpace(str[j])})
        \* the digits matched when the pattern is tried at position k
        at(k) ==
            IF k + 7 <= Len(str) /\ SubSeq(str, k, k + 7) = kwNplurals
                THEN LET e == skipSpace(k + 8)
                     IN  IF e <= Len(str) /\ str[e] = 61
                            THEN LET d == skipSpace(e + 1)
                                     run == {j \in d..Len(str) :
                                                \A m \in d..j : IsDigit(str[m])}
                                 IN  IF run = {} THEN <<>> ELSE SubSeq(str, d, Max(run))
                            ELSE <<>>
                ELSE <<>>
        hits == {k \in 1..Len(str) : at(k) # <<>>}
    IN  IF hits = {} THEN <<>> ELSE <<at(Min(hits))>>

\* a mutation of parseNPluralFromHeadersSafely: the header is not read
NpluralsNotRead(headers, fallback) == fallback

\* parseNPluralFromHeadersSafely(headers, fallback)
parseNPluralFromHeadersSafely(headers, fallback) ==
    IF ~MapHas(headers, kwPluralForms) \/ MapGet(headers, kwPluralForms) = <<>>
        THEN fallback
        ELSE LET m == MatchNplurals(MapGet(headers, kwPluralForms))
                 parsedInt == IF m = <<>> THEN fallback ELSE DigitsValue(m[1], 0)
             IN  IF parsedInt = 0 THEN fallback ELSE parsedInt

----------------------------------------------------------------------------
(* PoParser._validateToken and PoParser._normalize *)

\* translations[msgctxt][msgid], for a map of maps
SectionHas(section, ctx, id) == MapHas(section, ctx) /\ MapHas(MapGet(section, ctx), id)
SectionGet(section, ctx, id) == MapGet(MapGet(section, ctx), id)
SectionPut(section, ctx, id, e) ==
    MapPut(section, ctx, MapPut(IF MapHas(section, ctx) THEN MapGet(section, ctx) ELSE <<>>,
                                id, e))
SectionKeys(section) ==
    UNION {{<<section[c].key, section[c].val[j].key>> : j \in 1..Len(section[c].val)} :
            c \in 1..Len(section)}

\* the number of msgstr values of an entry ("msgstr = []" when undefined)
MsgstrCount(e) == IF e.msgstr = <<>> THEN 0 ELSE Len(e.msgstr[1])

\* "msgid_plural" is truthy: set and not the empty string
HasPluralId(e) == e.msgid_plural # <<>> /\ e.msgid_plural[1] # <<>>

\* a mutation of AlreadyDeclared: no id is ever found in the table
NeverDeclared(translations, msgctxt, msgid) == FALSE

\* "msgid in translations[msgctxt]"
AlreadyDeclared(translations, msgctxt, msgid) == MapHas(MapGet(translations, msgctxt), msgid)

\* a mutation of PluralCountWrong: every count of plural forms is accepted
PluralCountNeverWrong(e, nplurals) == FALSE

\* "msgid_plural && msgstr.length !== nplurals"
PluralCountWrong(e, nplurals) == HasPluralId(e) /\ MsgstrCount(e) # nplurals

\* "!msgid_plural && msgstr.length !== 1"
SingularCountWrong(e) == ~HasPluralId(e) /\ MsgstrCount(e) # 1

\* _validateToken: <<>> when it returns, <<error>> when it throws
ValidateToken(strict, e, translations, msgctxt, nplurals, at) ==
    IF ~strict THEN <<>>
    ELSE IF AlreadyDeclared(translations, msgctxt, e.msgid)
        THEN <<[kind |-> "Duplicate", what |-> "msgid", at |-> at, obsolete |-> FALSE]>>
    ELSE IF PluralCountWrong(e, nplurals)
        THEN <<[kind |-> "Range", what |-> "plural", at |-> at, obsolete |-> FALSE]>>
    ELSE IF SingularCountWrong(e)
        THEN <<[kind |-> "Range", what |-> "singular", at |-> at, obsolete |-> FALSE]>>
    ELSE <<>>

\* a mutation of IsObsoleteToken: no entry is taken as obsolete
NeverObsolete(e) == FALSE

\* "if (tokens[i].obsolete)"
IsObsoleteToken(e) == e.obsolete

\* the object stored in the table: the token, its obsolete property deleted
StoredEntry(e) ==
    [msgid |-> e.msgid, msgctxt |-> e.msgctxt, msgid_plural |-> e.msgid_plural,
     msgstr |-> e.msgstr, comments |-> e.comments]

EmptyTable(charset) ==
    [charset |-> charset, headers |-> <<>>, translations |-> <<>>, obsolete |-> <<>>]

\* the loop of _normalize from entry k on: the table, or the error thrown
RECURSIVE NormalizeFrom(_, _, _, _, _)

\* the end of one round of the loop for a regular entry: _validateToken,
\* then the entry stored
NormalizeRegular(entries, k, table, tr1, msgctxt, headers1, nplurals1, strict) ==
    LET e == entries[k]
        bad == ValidateToken(strict, e, tr1, msgctxt, nplurals1, k)
    IN  IF bad # <<>> THEN bad[1]
        ELSE NormalizeFrom(entries, k + 1,
                [table EXCEPT !.headers = headers1,
                              !.translations =
                                  SectionPut(tr1, msgctxt, e.msgid, StoredEntry(e))],
                nplurals1, strict)

NormalizeFrom(entries, k, table, nplurals, strict) ==
    IF k > Len(entries) THEN [kind |-> "table", table |-> table]
    ELSE
    LET e == entries[k]
        msgctxt == IF e.msgctxt = <<>> THEN <<>> ELSE e.msgctxt[1]
    IN  IF IsObsoleteToken(e)
            THEN NormalizeFrom(entries, k + 1,
                    [table EXCEPT !.obsolete =
                        <<SectionPut(IF @ = <<>> THEN <<>> ELSE @[1],
                                     msgctxt, e.msgid, StoredEntry(e))>>],
                    nplurals, strict)
        ELSE
        LET tr1 == IF MapHas(table.translations, msgctxt)
                      THEN table.translations
                      ELSE MapPut(table.translations, msgctxt, <<>>)
            isHeader == table.headers = <<>> /\ msgctxt = <<>> /\ e.msgid = <<>>
        IN  IF isHeader /\ e.msgstr = <<>>
                \* tokens[i].msgstr[0] with msgstr undefined
                THEN [kind |-> "TypeError", what |-> "msgstr[0]", at |-> k,
                      obsolete |-> FALSE]
            ELSE IF isHeader
                THEN NormalizeRegular(entries, k, table, tr1, msgctxt,
                        <<parseHeader(e.msgstr[1][1])>>,
                        parseNPluralFromHeadersSafely(parseHeader(e.msgstr[1][1]), nplurals),
                        strict)
                ELSE NormalizeRegular(entries, k, table, tr1, msgctxt, table.headers,
                                      nplurals, strict)

\* _normalize
Normalize(entries, charset, strict) ==
    NormalizeFrom(entries, 1, EmptyTable(charset), 1, strict)

\* the pairing records and the entries _finalize computes on the way
PairingRecords(tokens) == HandleKeys(JoinStringValues(tokens, <<>>), 1, <<>>)
Grouping(tokens, strict) == HandleValues(PairingRecords(tokens), 1, <<>>, <<>>, <<>>, strict)

\* _finalize: _normalize on what _handleValues returned, unless it threw
NormalizeGrouped(g, charset, strict) ==
    IF g.thrown # <<>> THEN g.thrown[1] ELSE Normalize(g.entries, charset, strict)

\* _finalize
Finalize(tokens, charset, strict) ==
    NormalizeGrouped(Grouping(tokens, strict), charset, strict)

\* parse: what it returns or throws, r being the lexer once _lexer is over
ParseReturn(r, charset, strict) ==
    IF r.thrown # <<>> THEN r.thrown[1] ELSE Finalize(r.lex, charset, strict)

----------------------------------------------------------------------------
(* PoCompiler *)

kwTextPlain == <<116, 101, 120, 116, 47, 112, 108, 97, 105, 110>>
kwMsgstrOpen == kwMsgstr \o <<91>>
obsoletePrefix == <<Chr.hash, Chr.tilde, Chr.sp>>
DefaultFoldLength == 76

\* the decimal digits of a natural number (template literal `${i}`)
RECURSIVE DecimalDigits(_)
DecimalDigits(k) ==
    IF k < 10 THEN <<48 + k>> ELSE DecimalDigits(k \div 10) \o <<48 + (k % 10)>>

\* constructor: the header names made canonical, in the order of the keys
RECURSIVE CanonicalHeaders(_, _)
CanonicalHeaders(headers, acc) ==
    IF headers = <<>> THEN acc
    ELSE LET h == Head(headers)
             lowerKey == ToLower(h.key)
             name == IF HeadersHas(lowerKey) THEN HeadersGet(lowerKey) ELSE h.key
         IN  CanonicalHeaders(Tail(headers), MapPut(acc, name, h.val))

\* contentType.format(contentType.parse(v)) of the content-type package,
\* for a media type without parameters: the type in lower case
ContentTypeFormatParse(v) == ToLower(Trim(v))

\* _handleCharset: the headers with their Content-Type rewritten
CompilerHeaders(table) ==
    LET headers == CanonicalHeaders(IF table.headers = <<>> THEN <<>> ELSE table.headers[1],
                                    <<>>)
        given == IF MapHas(headers, kwContentType) /\ MapGet(headers, kwContentType) # <<>>
                    THEN MapGet(headers, kwContentType)
                    ELSE kwTextPlain
    IN  MapPut(headers, kwContentType, ContentTypeFormatParse(given))

\* generateHeader
generateHeader(header) ==
    LET keys == SelectSeq(header, LAMBDA h : h.key # <<>>)
    IN  IF keys = <<>> THEN <<>>
        ELSE Join([j \in 1..Len(keys) |->
                        keys[j].key \o <<Chr.colon, Chr.sp>> \o Trim(keys[j].val)],
                  <<Chr.nl>>) \o <<Chr.nl>>

\* split(/\r?\n|\r/)
RECURSIVE SplitLines(_, _)
SplitLines(s, acc) ==
    IF s = <<>> THEN <<acc>>
    ELSE IF Head(s) = Chr.cr /\ Len(s) >= 2 /\ s[2] = Chr.nl
        THEN <<acc>> \o SplitLines(Tail(Tail(s)), <<>>)
    ELSE IF Head(s) \in {Chr.nl, Chr.cr} THEN <<acc>> \o SplitLines(Tail(s), <<>>)
    ELSE SplitLines(Tail(s), Append(acc, Head(s)))

\* the lines _drawComments writes for one field of a comment block
PrefixedLines(field, prefix) ==
    IF field = <<>> THEN <<>>
    ELSE LET ls == SplitLines(field[1], <<>>)
         IN  [j \in 1..Len(ls) |-> prefix \o ls[j]]

\* _drawComments
DrawComments(comments, eol) ==
    Join(PrefixedLines(comments.translator, <<Chr.hash, Chr.sp>>)
         \o PrefixedLines(comments.reference, <<Chr.hash, Chr.colon, Chr.sp>>)
         \o PrefixedLines(comments.extracted, <<Chr.hash, 46, Chr.sp>>)
         \o PrefixedLines(comments.flag, <<Chr.hash, 44, Chr.sp>>)
         \o PrefixedLines(comments.previous, <<Chr.hash, 124, Chr.sp>>),
         eol)

\* _addPOString as a whole
AddPOString(keyRaw, v, obsolete, maxLen, esc, eol) ==
    LET escapedValue == EscapeValue(v, esc)
        ls == IF maxLen > 0 THEN foldLine(escapedValue, maxLen)
              ELSE UnfoldedLines(escapedValue, esc)
    IN  RenderPOString(IF obsolete THEN obsoletePrefix \o keyRaw ELSE keyRaw,
                       ls,
                       IF obsolete THEN eol \o obsoletePrefix ELSE eol)

\* the block compile() draws when the table has no header entry: {}
EmptyBlock ==
    [msgid |-> <<>>, msgctxt |-> <<>>, msgid_plural |-> <<>>, msgstr |-> <<>>,
     comments |-> <<>>]

\* _drawBlock(block, {msgstr: override}, obsolete); override is <<>> when
\* no msgstr is overridden
DrawBlock(block, override, obsolete, maxLen, esc, eol) ==
    LET msgstr == IF override # <<>> THEN override[1]
                  ELSE IF block.msgstr = <<>> THEN <<<<>>>>   \* [].concat(undefined)
                  ELSE block.msgstr[1]
        commentsRender == IF block.comments = <<>> THEN <<>>
                          ELSE DrawComments(block.comments[1], eol)
        put(key, v) == [key |-> key, value |-> v]
        \* the keys and values handed to _addPOString, in order
        strings ==
            (IF block.msgctxt # <<>> /\ block.msgctxt[1] # <<>>
                THEN <<put(kwMsgctxt, block.msgctxt[1])>> ELSE <<>>)
            \o <<put(kwMsgid, block.msgid)>>
            \o (IF HasPluralId(block)
                   THEN <<put(kwMsgidPlural, block.msgid_plural[1])>>
                        \o [j \in 1..Len(msgstr) |->
                               put(kwMsgstrOpen \o DecimalDigits(j - 1) \o <<93>>, msgstr[j])]
                   ELSE <<put(kwMsgstr, IF msgstr = <<>> THEN <<>> ELSE msgstr[1])>>)
    IN  Join((IF commentsRender # <<>> THEN <<commentsRender>> ELSE <<>>)
             \o [j \in 1..Len(strings) |->
                    AddPOString(strings[j].key, strings[j].value, obsolete, maxLen, esc, eol)],
             eol)

\* _prepareSection without sorting: the entries of a section in the order
\* of its keys, the header entry left out
RECURSIVE PrepareSection(_)
PrepareSection(section) ==
    IF section = <<>> THEN <<>>
    ELSE LET ctx == Head(section)
             kept == SelectSeq(ctx.val, LAMBDA kv : ~(ctx.key = <<>> /\ kv.key = <<>>))
         IN  [j \in 1..Len(kept) |-> kept[j].val] \o PrepareSection(Tail(section))

\* compile(): the blocks it draws, in the order of the text: the header
\* block with the generated header for its msgstr, the entries of
\* `translations`, the entries of `obsolete`
CompileBlocks(table) ==
    LET headerBlock == IF SectionHas(table.translations, <<>>, <<>>)
                          THEN SectionGet(table.translations, <<>>, <<>>)
                          ELSE EmptyBlock
        regular == PrepareSection(table.translations)
        obsolete == IF table.obsolete = <<>> THEN <<>> ELSE PrepareSection(table.obsolete[1])
    IN  <<[block |-> headerBlock,
           override |-> <<<<generateHeader(CompilerHeaders(table))>>>>,
           obsolete |-> FALSE]>>
        \o [j \in 1..Len(regular) |->
                [block |-> regular[j], override |-> <<>>, obsolete |-> FALSE]]
        \o [j \in 1..Len(obsolete) |->
                [block |-> obsolete[j], override |-> <<>>, obsolete |-> TRUE]]

\* compile(): the blocks drawn and joined
DrawBlocks(blocks, maxLen, esc, eol) ==
    LET response == [j \in 1..Len(blocks) |->
                        DrawBlock(blocks[j].block, blocks[j].override, blocks[j].obsolete,
                                  maxLen, esc, eol)]
    IN  Join(response, eol \o eol) \o eol

\* new PoCompiler(table, {foldLength, escapeCharacters}).compile()
Compile(table, maxLen, esc, eol) == DrawBlocks(CompileBlocks(table), maxLen, esc, eol)

\* left < right for two strings
RECURSIVE StringLess(_, _)
StringLess(left, right) ==
    IF right = <<>> THEN FALSE
    ELSE IF left = <<>> THEN TRUE
    ELSE IF Head(left) # Head(right) THEN Head(left) < Head(right)
    ELSE StringLess(Tail(left), Tail(right))

\* the values of the sort option: off, on (compareMsgid), and a function
\* of the caller, here (a, b) => compareMsgid(b, a)
SortOptions == {"false", "true", "function"}

\* the comparator response.sort is called with, on two entries of a table
SortComparator(option, left, right) ==
    LET first == IF option = "function" THEN right.msgid ELSE left.msgid
        second == IF option = "function" THEN left.msgid ELSE right.msgid
    IN  IF StringLess(first, second) THEN -1
        ELSE IF StringLess(second, first) THEN 1
        ELSE 0

\* response.sort(comparator): a stable sort
RECURSIVE SortResponse(_, _, _, _)
SortResponse(list, k, acc, option) ==
    IF k > Len(list) THEN acc
    ELSE LET item == list[k]
             before == Cardinality({j \in 1..Len(acc) :
                                       SortComparator(option, acc[j], item) <= 0})
         IN  SortResponse(list, k + 1,
                          SubSeq(acc, 1, before) \o <<item>>
                              \o SubSeq(acc, before + 1, Len(acc)),
                          option)

\* _prepareSection with the sort option
PrepareSorted(section, option) ==
    IF option = "false" THEN PrepareSection(section)
    ELSE SortResponse(PrepareSection(section), 1, <<>>, option)

\* a mutation of CompileBlocksSorted: the two sections are sorted as one list
CompileBlocksMixed(table, option) ==
    LET headerBlock == IF SectionHas(table.translations, <<>>, <<>>)
                          THEN SectionGet(table.translations, <<>>, <<>>)
                          ELSE EmptyBlock
        regular == PrepareSection(table.translations)
        obsolete == IF table.obsolete = <<>> THEN <<>> ELSE PrepareSection(table.obsolete[1])
        all == [j \in 1..Len(regular) |->
                   [block |-> regular[j], msgid |-> regular[j].msgid, obsolete |-> FALSE]]
               \o [j \in 1..Len(obsolete) |->
                      [block |-> obsolete[j], msgid |-> obsolete[j].msgid, obsolete |-> TRUE]]
        sorted == IF option = "false" THEN all ELSE SortResponse(all, 1, <<>>, option)
    IN  <<[block |-> headerBlock,
           override |-> <<<<generateHeader(CompilerHeaders(table))>>>>,
           obsolete |-> FALSE]>>
        \o [j \in 1..Len(sorted) |->
                [block |-> sorted[j].block, override |-> <<>>,
                 obsolete |-> sorted[j].obsolete]]

\* compile() with the sort option: each section is prepared on its own
CompileBlocksSorted(table, option) ==
    LET headerBlock == IF SectionHas(table.translations, <<>>, <<>>)
                          THEN SectionGet(table.translations, <<>>, <<>>)
                          ELSE EmptyBlock
        regular == PrepareSorted(table.translations, option)
        obsolete == IF table.obsolete = <<>> THEN <<>>
                    ELSE PrepareSorted(table.obsolete[1], option)
    IN  <<[block |-> headerBlock,
           override |-> <<<<generateHeader(CompilerHeaders(table))>>>>,
           obsolete |-> FALSE]>>
        \o [j \in 1..Len(regular) |->
                [block |-> regular[j], override |-> <<>>, obsolete |-> FALSE]]
        \o [j \in 1..Len(obsolete) |->
                [block |-> obsolete[j], override |-> <<>>, obsolete |-> TRUE]]

\* new PoCompiler(table, {sort, foldLength, escapeCharacters}).compile()
CompileSorted(table, option, maxLen, esc, eol) ==
    DrawBlocks(CompileBlocksSorted(table, option), maxLen, esc, eol)

\* new PoParser(text, {validation}).parse() for a string
ParseText(text, strict) ==
    ParseReturn(RunLexer(text, 0, "none", FALSE, <<>>, 1), kwUtf8, strict)

----------------------------------------------------------------------------
(* formatCharset, and convert for the two charsets of the model *)

\* s is one of the prefixes, an optional - or _, and digits: the digits
NumberedSuffix(s, prefixes) ==
    LET cuts == {k \in 1..(Len(s) - 1) :
                    /\ \E pre \in prefixes, sep \in {<<>>, <<45>>, <<95>>} :
                            SubSeq(s, 1, k) = pre \o sep
                    /\ \A j \in (k + 1)..Len(s) : IsDigit(s[j])}
    IN  IF cuts = {} THEN <<>> ELSE <<SubSeq(s, Min(cuts) + 1, Len(s))>>

\* s.replace(/^prefix[-_]?(\d+)$/, "name$1")
RewriteNumbered(s, prefixes, name) ==
    LET m == NumberedSuffix(s, prefixes)
    IN  IF m = <<>> THEN s ELSE name \o m[1]

formatCharset(charset, defaultCharset) ==
    LET lower == ToLower(charset)
        utf == RewriteNumbered(lower, {<<117, 116, 102>>}, <<117, 116, 102, 45>>)
        win == RewriteNumbered(utf, {<<119, 105, 110>>, <<119, 105, 110, 100, 111, 119, 115>>},
                               <<119, 105, 110, 100, 111, 119, 115, 45>>)
        latin == RewriteNumbered(win, {<<108, 97, 116, 105, 110>>},
                                 <<105, 115, 111, 45, 56, 56, 53, 57, 45>>)
        ascii == IF latin \in {kwAscii, <<117, 115>> \o kwAscii,
                               <<117, 115, 45>> \o kwAscii, <<117, 115, 95>> \o kwAscii}
                    THEN kwAscii ELSE latin
        named == IF ascii = kwCharset THEN defaultCharset ELSE ascii
    IN  Trim(named)

\* Buffer.from(str, "utf-8") for code units below 0x800
RECURSIVE Utf8Encode(_)
Utf8Encode(str) ==
    IF str = <<>> THEN <<>>
    ELSE (IF Head(str) < 128 THEN <<Head(str)>>
          ELSE <<192 + (Head(str) \div 64), 128 + (Head(str) % 64)>>)
         \o Utf8Encode(Tail(str))

\* buf.toString("utf8") for sequences of one and two bytes; U+FFFD for the
\* rest
RECURSIVE Utf8Decode(_)
Utf8Decode(buf) ==
    IF buf = <<>> THEN <<>>
    ELSE IF Head(buf) < 128 THEN <<Head(buf)>> \o Utf8Decode(Tail(buf))
    ELSE IF Head(buf) >= 194 /\ Head(buf) < 224 /\ Len(buf) >= 2
            /\ buf[2] >= 128 /\ buf[2] < 192
        THEN <<(Head(buf) - 192) * 64 + (buf[2] - 128)>> \o Utf8Decode(Tail(Tail(buf)))
    ELSE <<65533>> \o Utf8Decode(Tail(buf))

\* convert(str, charset): the bytes of a string in utf-8 or in a one-byte
\* charset (iso-8859-1 standing for all of them)
EncodeText(str, charset) ==
    IF charset \in {kwUtf8, kwAscii} THEN Utf8Encode(str)
    ELSE [j \in 1..Len(str) |-> IF str[j] < 256 THEN str[j] ELSE 63]

\* convert(buf, "utf-8", charset).toString("utf8")
DecodeText(buf, charset) ==
    IF charset \in {kwUtf8, kwAscii} THEN Utf8Decode(buf) ELSE buf

----------------------------------------------------------------------------
(* MoCompiler.  A buffer is a sequence of bytes. *)

\* 0x950412de as the four bytes of the word, most significant first
MAGIC == <<149, 4, 18, 222>>

\* a number below 2^31 as the four bytes of its word, most significant first
Word(v) == <<(v \div 16777216) % 256, (v \div 65536) % 256, (v \div 256) % 256, v % 256>>

\* the number a word stands for
WordValue(w) == 16777216 * w[1] + 65536 * w[2] + 256 * w[3] + w[4]

\* constructor: the header names made canonical, POT-Creation-Date dropped
RECURSIVE MoCanonicalHeaders(_, _)
MoCanonicalHeaders(headers, acc) ==
    IF headers = <<>> THEN acc
    ELSE LET h == Head(headers)
             lowerKey == ToLower(h.key)
         IN  IF lowerKey # <<>> /\ HeadersHas(lowerKey)
                THEN IF lowerKey # ToLower(kwPotCreationDate)
                        THEN MoCanonicalHeaders(Tail(headers),
                                                MapPut(acc, HeadersGet(lowerKey), h.val))
                        ELSE MoCanonicalHeaders(Tail(headers), acc)
                ELSE MoCanonicalHeaders(Tail(headers), MapPut(acc, h.key, h.val))

\* "context[msgid].msgstr.some((item) => !!item.length)"
\* a mutation of HasTranslation: every entry counts as translated
AlwaysTranslated(e) == TRUE

HasTranslation(e) == \E j \in 1..Len(e.msgstr[1]) : e.msgstr[1][j] # <<>>

\* an entry of the table has no msgstr: msgstr.some throws
SomeEntryLacksMsgstr(translations) ==
    \E c \in 1..Len(translations) :
        \E j \in 1..Len(translations[c].val) : translations[c].val[j].val.msgstr = <<>>

\* constructor: the entries without a non-empty msgstr filtered out, and the
\* contexts left empty with them
FilterTranslations(translations) ==
    LET kept == [c \in 1..Len(translations) |->
                    [key |-> translations[c].key,
                     val |-> SelectSeq(translations[c].val,
                                       LAMBDA kv : HasTranslation(kv.val))]]
    IN  SelectSeq(kept, LAMBDA ctx : ctx.val # <<>>)

\* PoCompiler's constructor and _handleCharset: the caller's table as they
\* leave it
PoConstructedTable(table) ==
    [table EXCEPT
        !.headers = <<CompilerHeaders(table)>>,
        !.charset = formatCharset(IF table.charset # <<>> THEN table.charset ELSE kwUtf8,
                                  kwLatin1)]

\* MoCompiler's constructor and _handleCharset: the caller's table as they
\* leave it
MoConstructedTable(table) ==
    LET headers == MoCanonicalHeaders(IF table.headers = <<>> THEN <<>>
                                      ELSE table.headers[1], <<>>)
        given == IF MapHas(headers, kwContentType) /\ MapGet(headers, kwContentType) # <<>>
                    THEN MapGet(headers, kwContentType)
                    ELSE kwTextPlain
    IN  [table EXCEPT
            !.translations = FilterTranslations(table.translations),
            !.headers = <<MapPut(headers, kwContentType, ContentTypeFormatParse(given))>>,
            !.charset = formatCharset(IF table.charset # <<>> THEN table.charset ELSE kwUtf8,
                                      kwLatin1)]

\* _generateList: the keys and values of one context
MoItemsOf(ctx, charset) ==
    LET kept == SelectSeq(ctx.val, LAMBDA kv : ~(ctx.key = <<>> /\ kv.key = <<>>))
    IN  [j \in 1..Len(kept) |->
            LET e == kept[j].val
                key == (IF ctx.key # <<>> THEN ctx.key \o <<4>> ELSE <<>>)
                       \o kept[j].key
                       \o (IF HasPluralId(e) THEN <<0>> \o e.msgid_plural[1] ELSE <<>>)
                val == IF e.msgstr = <<>> THEN <<>> ELSE Join(e.msgstr[1], <<0>>)
            IN  [msgid |-> EncodeText(key, charset), msgstr |-> EncodeText(val, charset)]]

RECURSIVE MoItemsOfSection(_, _)
MoItemsOfSection(section, charset) ==
    IF section = <<>> THEN <<>>
    ELSE MoItemsOf(Head(section), charset) \o MoItemsOfSection(Tail(section), charset)

\* _generateList
GenerateList(table) ==
    <<[msgid |-> <<>>,
       msgstr |-> EncodeText(generateHeader(table.headers[1]), table.charset)]>>
    \o MoItemsOfSection(table.translations, table.charset)

\* left < right for two strings
RECURSIVE StrLess(_, _)
StrLess(left, right) ==
    IF right = <<>> THEN FALSE
    ELSE IF left = <<>> THEN TRUE
    ELSE IF Head(left) # Head(right) THEN Head(left) < Head(right)
    ELSE StrLess(Tail(left), Tail(right))

\* compareMsgid on two items: their msgid buffers compare as the strings
\* they convert to
compareMsgid(left, right) ==
    IF StrLess(Utf8Decode(left.msgid), Utf8Decode(right.msgid)) THEN -1
    ELSE IF StrLess(Utf8Decode(right.msgid), Utf8Decode(left.msgid)) THEN 1
    ELSE 0

\* list.sort(compareMsgid): a stable sort
RECURSIVE SortFrom(_, _, _)
SortFrom(list, k, acc) ==
    IF k > Len(list) THEN acc
    ELSE LET item == list[k]
             before == Cardinality({j \in 1..Len(acc) : compareMsgid(acc[j], item) <= 0})
         IN  SortFrom(list, k + 1,
                      SubSeq(acc, 1, before) \o <<item>> \o SubSeq(acc, before + 1, Len(acc)))

SortByMsgid(list) == SortFrom(list, 1, <<>>)

RECURSIVE SumOf(_)
SumOf(ns) == IF ns = <<>> THEN 0 ELSE Head(ns) + SumOf(Tail(ns))

\* a mutation of CalculateSize: the 0x00 after each key and value is not counted
CalculateSizeNoTerminator(list) ==
    LET msgidLength == SumOf([j \in 1..Len(list) |-> Len(list[j].msgid)])
        msgstrLength == SumOf([j \in 1..Len(list) |-> Len(list[j].msgstr)])
    IN  [msgid |-> msgidLength, msgstr |-> msgstrLength,
         total |-> 28 + 16 * Len(list) + msgidLength + msgstrLength]

\* _calculateSize
CalculateSize(list) ==
    LET msgidLength == SumOf([j \in 1..Len(list) |-> Len(list[j].msgid) + 1])
        msgstrLength == SumOf([j \in 1..Len(list) |-> Len(list[j].msgstr) + 1])
    IN  [msgid |-> msgidLength, msgstr |-> msgstrLength,
         total |-> 4 + 4 + 4 + 4 + 4 + 4 + 4 + (4 + 4) * Len(list) + (4 + 4) * Len(list)
                   + msgidLength + msgstrLength]

\* writeUInt32BE, writeUInt32LE
UInt32BE(w) == w
UInt32LE(w) == <<w[4], w[3], w[2], w[1]>>

\* a mutation of Build: the buffer as Buffer.alloc leaves it
BuildNothing(list, size) == [j \in 1..size.total |-> 0]

\* _build: the buffer of size.total bytes
Build(list, size) ==
    LET n == Len(list)
        valueTableStart == 28 + n * 8 + n * 8
        keyPosition(j) ==
            valueTableStart + SumOf([h \in 1..(j - 1) |-> Len(list[h].msgid) + 1])
        lastKeyEnd == keyPosition(n + 1)
        valuePosition(j) ==
            lastKeyEnd + SumOf([h \in 1..(j - 1) |-> Len(list[h].msgstr) + 1])
        written ==
            UInt32LE(MAGIC) \o UInt32LE(Word(0)) \o UInt32LE(Word(n)) \o UInt32LE(Word(28))
            \o UInt32LE(Word(28 + (4 + 4) * n)) \o UInt32LE(Word(0)) \o UInt32LE(Word(28 + (4 + 4) * n * 2))
            \o Cat([j \in 1..n |-> UInt32LE(Word(Len(list[j].msgid))) \o UInt32LE(Word(keyPosition(j)))])
            \o Cat([j \in 1..n |-> UInt32LE(Word(Len(list[j].msgstr))) \o UInt32LE(Word(valuePosition(j)))])
            \o Cat([j \in 1..n |-> list[j].msgid \o <<0>>])
            \o Cat([j \in 1..n |-> list[j].msgstr \o <<0>>])
    IN  [j \in 1..size.total |-> IF j <= Len(written) THEN written[j] ELSE 0]

\* new MoCompiler(table).compile(): the error thrown, or the buffer and the
\* caller's table as the call leaves it
MoCompilerCompile(table) ==
    IF SomeEntryLacksMsgstr(table.translations)
        THEN [kind |-> "TypeError", what |-> "msgstr.some", table |-> table]
        ELSE LET constructed == MoConstructedTable(table)
                 list == GenerateList(constructed)
                 size == CalculateSize(list)
             IN  [kind |-> "buffer", buffer |-> Build(SortByMsgid(list), size),
                  table |-> constructed]

----------------------------------------------------------------------------
(* MoParser *)

\* readUInt32LE, readUInt32BE at a byte offset
ReadUInt32LE(buf, off) == <<buf[off + 4], buf[off + 3], buf[off + 2], buf[off + 1]>>
ReadUInt32BE(buf, off) == <<buf[off + 1], buf[off + 2], buf[off + 3], buf[off + 4]>>

\* the four bytes read at off lie inside the buffer; readUInt32LE and
\* readUInt32BE throw a RangeError otherwise
ReadInRange(buf, off) == off + 4 <= Len(buf)

\* _checkMagick: the read function chosen, "none" when the magic is not found,
\* "RangeError" when the read at offset 0 throws
CheckMagick(buf) ==
    IF ~ReadInRange(buf, 0) THEN "RangeError"
    ELSE IF ReadUInt32LE(buf, 0) = MAGIC THEN "readUInt32LE"
    ELSE IF ReadUInt32BE(buf, 0) = MAGIC THEN "readUInt32BE"
    ELSE "none"

\* a mutation of ReadUInt32: every number is read little-endian
ReadUInt32AlwaysLE(readFunc, buf, off) ==
    IF buf[off + 1] >= 64 THEN 1073741824 ELSE WordValue(ReadUInt32LE(buf, off))

\* the number read; a number of 2^30 or more, which is beyond the end of every
\* buffer considered, is read as 2^30
ReadUInt32(readFunc, buf, off) ==
    LET w == IF readFunc = "readUInt32LE" THEN ReadUInt32LE(buf, off)
             ELSE ReadUInt32BE(buf, off)
    IN  IF w[1] >= 64 THEN 1073741824 ELSE WordValue(w)

\* buf.subarray(start, end)
Subarray(buf, start, end) == SubSeq(buf, start + 1, Min({end, Len(buf)}))

\* /[; ]charset\s*=\s*([\w-]+)/i on str: <<>> for no match, else <<name>>
MatchCharset(str) ==
    LET skipSpace(k) == Min({j \in k..(Len(str) + 1) :
                                j = Len(str) + 1 \/ ~IsSpace(str[j])})
        at(k) ==
            IF str[k] \in {59, Chr.sp} /\ k + 7 <= Len(str)
               /\ ToLower(SubSeq(str, k + 1, k + 7)) = kwCharset
                THEN LET e == skipSpace(k + 8)
                     IN  IF e <= Len(str) /\ str[e] = 61
                            THEN LET d == skipSpace(e + 1)
                                     run == {j \in d..Len(str) :
                                                \A m \in d..j : IsWord(str[m]) \/ str[m] = 45}
                                 IN  IF run = {} THEN <<>> ELSE SubSeq(str, d, Max(run))
                            ELSE <<>>
                ELSE <<>>
        hits == {k \in 1..Len(str) : at(k) # <<>>}
    IN  IF hits = {} THEN <<>> ELSE <<at(Min(hits))>>

\* a mutation of MoHandleCharset: the headers are not parsed
MoHandleNothing(table, headersRaw) == table

\* _handleCharset(headersRaw): the table with its charset and headers set
MoHandleCharset(table, headersRaw) ==
    LET m == MatchCharset(Utf8Decode(headersRaw))
        charset == IF m = <<>> THEN table.charset ELSE formatCharset(m[1], table.charset)
    IN  [table EXCEPT !.charset = charset,
                      !.headers = <<parseHeader(DecodeText(headersRaw, charset))>>]

\* a mutation of AddString: the translations are not split on U+0000
AddStringUnsplit(table, msgidRaw, msgstr) ==
    [table EXCEPT !.translations =
        SectionPut(@, <<>>, msgidRaw,
                   [msgid |-> msgidRaw, msgctxt |-> <<>>, msgid_plural |-> <<>>,
                    msgstr |-> <<<<msgstr>>>>, comments |-> <<>>])]

\* _addString
AddString(table, msgidRaw, msgstr) ==
    LET byContext == Split(msgidRaw, 4)
        msgctxt == IF Len(byContext) > 1 THEN byContext[1] ELSE <<>>
        rest == IF Len(byContext) > 1 THEN Join(Tail(byContext), <<4>>) ELSE msgidRaw
        parts == Split(rest, 0)
        msgidPlural == Join(Tail(parts), <<0>>)
        translation ==
            [msgid |-> parts[1],
             msgctxt |-> IF Len(byContext) > 1 THEN <<msgctxt>> ELSE <<>>,
             msgid_plural |-> IF msgidPlural # <<>> THEN <<msgidPlural>> ELSE <<>>,
             msgstr |-> <<Split(msgstr, 0)>>,
             comments |-> <<>>]
    IN  [table EXCEPT !.translations = SectionPut(@, msgctxt, parts[1], translation)]

\* _loadTranslationTable from entry k (0-based) on: the table, or the
\* RangeError of a read outside the buffer
RECURSIVE LoadTranslationTable(_, _, _, _, _, _, _)
LoadTranslationTable(buf, readFunc, k, total, offsetOriginals, offsetTranslations, table) ==
    IF k >= total THEN [kind |-> "table", table |-> table]
    ELSE IF ~ReadInRange(buf, offsetOriginals + 4) THEN [kind |-> "RangeError"]
    ELSE IF ~ReadInRange(buf, offsetTranslations + 4) THEN [kind |-> "RangeError"]
    ELSE LET msgidBuffer ==
                 Subarray(buf, ReadUInt32(readFunc, buf, offsetOriginals + 4),
                          ReadUInt32(readFunc, buf, offsetOriginals + 4)
                          + ReadUInt32(readFunc, buf, offsetOriginals))
             msgstrBuffer ==
                 Subarray(buf, ReadUInt32(readFunc, buf, offsetTranslations + 4),
                          ReadUInt32(readFunc, buf, offsetTranslations + 4)
                          + ReadUInt32(readFunc, buf, offsetTranslations))
             msgid == DecodeText(msgidBuffer, table.charset)
             msgstr == DecodeText(msgstrBuffer, table.charset)
             withHeaders == IF k = 0 /\ msgid = <<>>
                               THEN MoHandleCharset(table, msgstrBuffer)
                               ELSE table
         IN  LoadTranslationTable(buf, readFunc, k + 1, total, offsetOriginals + 8,
                                  offsetTranslations + 8,
                                  AddString(withHeaders, msgid, msgstr))

\* the reads of parse at offsets 4, 8, 12 and 16, then _loadTranslationTable
MoParserLoad(buf, readFunc, defaultCharset) ==
    IF ~ReadInRange(buf, 16) THEN [kind |-> "RangeError"]
    ELSE LoadTranslationTable(buf, readFunc, 0,
                              ReadUInt32(readFunc, buf, 8),
                              ReadUInt32(readFunc, buf, 12),
                              ReadUInt32(readFunc, buf, 16),
                              EmptyTable(defaultCharset))

\* new MoParser(buf, defaultCharset).parse(): false, the table, or the
\* RangeError of a read outside the buffer
MoParserParse(buf, defaultCharset) ==
    IF CheckMagick(buf) = "RangeError" THEN [kind |-> "RangeError"]
    ELSE IF CheckMagick(buf) = "none" THEN [kind |-> "false"]
    ELSE MoParserLoad(buf, CheckMagick(buf), defaultCharset)

----------------------------------------------------------------------------
(* PoParser on a Buffer: _handleCharset *)

\* the first index from k on (1-based) whose character is not whitespace,
\* Len(str) + 1 when there is none
SkipSpace(str, k) ==
    Min({j \in k..(Len(str) + 1) : j = Len(str) + 1 \/ ~IsSpace(str[j])})

\* str.search(/^\s*(?:name|...)/im): the index (0-based) of the first line
\* start from which whitespace and then one of the names follow, -1 for none
SearchKeyLine(str, names) ==
    LET hits == {p \in 0..Len(str) :
                    /\ p = 0 \/ IsLineTerminator(str[p])
                    /\ \E name \in names :
                          ToLower(SubSeq(str, SkipSpace(str, p + 1),
                                         Min({Len(str),
                                              SkipSpace(str, p + 1) + Len(name) - 1})))
                          = name}
    IN  IF hits = {} THEN -1 ELSE Min(hits)

\* _handleCharset: the part of the text the charset is looked for in
PoHeaderBlock(str) ==
    LET first == SearchKeyLine(str, {kwMsgid})
        second == SearchKeyLine(JsSubstringFrom(str, first + 5), {kwMsgid, kwMsgctxt})
    IN  IF first < 0 THEN <<>>
        ELSE IF first + second >= 0 THEN JsSubstring(str, 0, first + second + 5)
        ELSE str

\* (?:[\s;]|\\n)* from index k on: the index after it
RECURSIVE SkipCharsetTail(_, _)
SkipCharsetTail(str, k) ==
    IF k > Len(str) THEN k
    ELSE IF IsSpace(str[k]) \/ str[k] = 59 THEN SkipCharsetTail(str, k + 1)
    ELSE IF str[k] = Chr.bs /\ k < Len(str) /\ str[k + 1] \in {Chr.n, 78}
        THEN SkipCharsetTail(str, k + 2)
    ELSE k

\* "\s*$ (multiline) at index k: a double quote, then whitespace up to the end
\* of a line or of the text
ClosesHeaderLine(str, k) ==
    /\ k <= Len(str)
    /\ str[k] = Chr.dq
    /\ LET rest == {j \in (k + 1)..Len(str) : ~IsSpace(str[j]) \/ IsLineTerminator(str[j])}
       IN  rest = {} \/ IsLineTerminator(str[Min(rest)])

\* /[; ]charset\s*=\s*([\w-]+)(?:[\s;]|\\n)*"\s*$/im on str: <<>> for no
\* match, else <<name>>
MatchPoCharset(str) ==
    LET at(k) ==
            IF str[k] \in {59, Chr.sp} /\ k + 7 <= Len(str)
               /\ ToLower(SubSeq(str, k + 1, k + 7)) = kwCharset
               /\ SkipSpace(str, k + 8) <= Len(str)
               /\ str[SkipSpace(str, k + 8)] = 61
                THEN LET d == SkipSpace(str, SkipSpace(str, k + 8) + 1)
                         run == {j \in d..Len(str) :
                                    \A m \in d..j : IsWord(str[m]) \/ str[m] = 45}
                     IN  IF run # {} /\ ClosesHeaderLine(str, SkipCharsetTail(str, Max(run) + 1))
                            THEN SubSeq(str, d, Max(run))
                            ELSE <<>>
                ELSE <<>>
        hits == {k \in 1..Len(str) : at(k) # <<>>}
    IN  IF hits = {} THEN <<>> ELSE <<at(Min(hits))>>

\* _handleCharset(buf): this._charset as it leaves it
HandleCharset(buf, defaultCharset) ==
    LET m == MatchPoCharset(PoHeaderBlock(Utf8Decode(buf)))
    IN  IF m = <<>> THEN defaultCharset ELSE formatCharset(m[1], defaultCharset)

\* new PoParser(buf, {defaultCharset, validation}).parse() for a Buffer: the
\* text is buf.toString() for utf-8 and _toString(buf) otherwise
ParseBufferAs(buf, charset, strict) ==
    ParseReturn(RunLexer(DecodeText(buf, charset), 0, "none", FALSE, <<>>, 1), charset, strict)

ParseBuffer(buf, defaultCharset, strict) ==
    ParseBufferAs(buf, HandleCharset(buf, defaultCharset), strict)

----------------------------------------------------------------------------
(* PoParserTransform.  a holds the fields of the transform (cache, the     *)
(* concatenation of this._cache, whose length is this._cacheSize) and of   *)
(* its parser, the byte ranges handed to _lexer so far and the error.      *)

DefaultTreshold == 2048

\* a mutation of TrailingHighBytes: no byte is held back
NoTrailingHighBytes(buf) == 0

\* lines 82-88: the number of bytes >= 0x80 at the end of the chunk
TrailingHighBytes(buf) ==
    LET low == {j \in 1..Len(buf) : buf[j] < 128}
    IN  IF low = {} THEN Len(buf) ELSE Len(buf) - Max(low)

\* the transform once constructed
AdapterConstructed(strict) ==
    [cache |-> <<>>, parserMade |-> FALSE, charset |-> <<>>, validation |-> strict,
     state |-> "none", escaped |-> FALSE, lex |-> <<>>, lineNumber |-> 1,
     handed |-> <<>>, error |-> <<>>, constructions |-> 0, called |-> <<>>]

\* done() or done(err) of the invocation `by` of _transform or _flush: the
\* calls of the completion callbacks so far, err being <<>> for none
Called(a, by, err) == [a EXCEPT !.called = Append(@, [by |-> by, error |-> err])]

\* a mutation of WithParser: a parser is made whether there is one or not
WithParserAnew(a, buf, defaultCharset) ==
    [a EXCEPT !.parserMade = TRUE, !.charset = HandleCharset(buf, defaultCharset),
              !.state = "none", !.escaped = FALSE, !.lex = <<>>, !.lineNumber = 1,
              !.constructions = @ + 1]

\* this._parser = new PoParser(chunk, this.options), when there is none yet;
\* constructions counts the parsers made
WithParser(a, buf, defaultCharset) ==
    IF a.parserMade THEN a
    ELSE [a EXCEPT !.parserMade = TRUE, !.charset = HandleCharset(buf, defaultCharset),
                   !.state = "none", !.escaped = FALSE, !.lex = <<>>, !.lineNumber = 1,
                   !.constructions = @ + 1]

\* the fields after this._parser._lexer(...) on the range buf, r being the
\* lexer once the call is over
LexerOutcome(a, buf, atFlush, r) ==
    [a EXCEPT !.state = r.state, !.escaped = r.escaped, !.lex = r.lex,
              !.lineNumber = r.lineNumber,
              !.handed = Append(@, [range |-> buf, atFlush |-> atFlush]),
              !.error = r.thrown]

\* a mutation of LexChunk: the escape flag is a local of the call
LexChunkUnescaped(a, buf, atFlush) ==
    LexerOutcome(a, buf, atFlush,
                 RunLexer(DecodeText(buf, a.charset), 0, a.state, FALSE, a.lex,
                          a.lineNumber))

\* this._parser._lexer(this._parser._toString(chunk)) in its try block
LexChunk(a, buf, atFlush) ==
    LexerOutcome(a, buf, atFlush,
                 RunLexer(DecodeText(buf, a.charset), 0, a.state, a.escaped, a.lex,
                          a.lineNumber))

\* _transform, lines 80-110: the bytes >= 0x80 at the end of the chunk go to
\* the cache, what is before them to the lexer
HoldBack(a, buf, len) ==
    IF len = Len(buf) THEN [a EXCEPT !.cache = buf]
    ELSE LexChunk([a EXCEPT !.cache = SubSeq(buf, Len(buf) - len + 1, Len(buf))],
                  SubSeq(buf, 1, Len(buf) - len), FALSE)

\* _transform(chunkRaw)
AdapterTransform(a, chunkRaw, treshold, defaultCharset) ==
    IF chunkRaw = <<>> THEN Called(a, "transform", <<>>)                \* line 49
    ELSE IF ~a.parserMade /\ Len(a.cache) + Len(chunkRaw) < treshold
        THEN Called([a EXCEPT !.cache = @ \o chunkRaw], "transform", <<>>)   \* line 59
    ELSE LET r == HoldBack(WithParser([a EXCEPT !.cache = <<>>], a.cache \o chunkRaw,
                                      defaultCharset),
                           a.cache \o chunkRaw, TrailingHighBytes(a.cache \o chunkRaw))
         IN  Called(r, "transform", r.error)                            \* lines 102-110

\* _flush, lines 114-132: the cache goes to the lexer, and done(error) is
\* called when the lexer throws
AdapterFlush(a, defaultCharset) ==
    IF a.cache = <<>> THEN a
    ELSE LET r == LexChunk(WithParser(a, a.cache, defaultCharset), a.cache, TRUE)
         IN  IF r.error # <<>> THEN Called(r, "flush", r.error) ELSE r

\* _flush, lines 134-136: what _finalize returns or throws, <<>> when there
\* is no parser
FlushFinalize(a) ==
    IF a.parserMade THEN <<Finalize(a.lex, a.charset, a.validation)>> ELSE <<>>

----------------------------------------------------------------------------
(* PoParser.parse on a string, the loop of _lexer being taken one round at *)
(* a time.  The inputs are made of a few short pieces.                     *)

MaxPieces == 4       \* most pieces an input of the lexer is made of

\* msgid msgstr " \ n space newline # ~
LexPieces ==
    {kwMsgid, kwMsgstr, <<Chr.dq>>, <<Chr.bs>>, <<Chr.n>>, <<Chr.sp>>, <<Chr.nl>>,
     <<Chr.hash>>, <<Chr.tilde>>}

LexInputs == {Cat(ps) : ps \in SeqsUpTo(LexPieces, MaxPieces)}

\* new PoParser(chunk, {validation}) for a string, then parse() is entered
ParserConstructed ==
    /\ lexI = 0 /\ state = "none" /\ escaped = FALSE /\ lex = <<>>
    /\ lineNumber = 1 /\ ppc = "lexing" /\ result = [kind |-> "none"]

InitLex ==
    /\ chunk \in LexInputs
    /\ validation = FALSE
    /\ ParserConstructed
    /\ FoldIdle
    /\ RtIdle
    /\ MoIdle
    /\ StreamIdle
    /\ DuoIdle
    /\ GroupIdle

\* one round of the for loop of _lexer that does not throw
LexerStep ==
    /\ ppc = "lexing"
    /\ lexI < Len(chunk)
    /\ LET r == LexerIteration(state, escaped, lex, lineNumber, chunk[lexI + 1])
       IN  /\ r.thrown = <<>>
           /\ state' = r.state /\ escaped' = r.escaped /\ lex' = r.lex
           /\ lineNumber' = r.lineNumber
           /\ lexI' = IF r.back THEN lexI ELSE lexI + 1
    /\ UNCHANGED <<chunk, validation, ppc, result, foldVars, rtVars, moVars,
                   streamVars, duoVars, groupVars>>

\* the round of the for loop of _lexer that throws the SyntaxError
LexerThrow ==
    /\ ppc = "lexing"
    /\ lexI < Len(chunk)
    /\ LET r == LexerIteration(state, escaped, lex, lineNumber, chunk[lexI + 1])
       IN  /\ r.thrown # <<>>
           /\ lineNumber' = r.lineNumber
           /\ result' = r.thrown[1]
    /\ ppc' = "done"
    /\ UNCHANGED <<chunk, lexI, state, escaped, lex, validation, foldVars, rtVars, moVars,
                   streamVars, duoVars, groupVars>>

\* _lexer returns and parse() returns this._finalize(this._lex)
ParseFinalize ==
    /\ ppc = "lexing"
    /\ lexI >= Len(chunk)
    /\ result' = Finalize(lex, kwUtf8, validation)
    /\ ppc' = "done"
    /\ UNCHANGED <<chunk, lexI, state, escaped, lex, lineNumber, validation, foldVars, rtVars, moVars,
                   streamVars, duoVars, groupVars>>

NextLex ==
    \/ LexerStep
    \/ LexerThrow
    \/ ParseFinalize

SpecLex == InitLex /\ [][NextLex]_vars

----------------------------------------------------------------------------
(* PoParser.parse on a string as one step.  The inputs are made of blocks, *)
(* each an entry of a PO file or a fragment of one.                        *)

MaxBlocks == 2       \* most blocks an input of parse() is made of

\* msgid "" / msgstr "Plural-Forms: nplurals=3;\n" /
BlkHeaderPlural3 ==
    <<109, 115, 103, 105, 100, 32, 34, 34, 10, 109, 115, 103, 115, 116,
      114, 32, 34, 80, 108, 117, 114, 97, 108, 45, 70, 111, 114, 109,
      115, 58, 32, 110, 112, 108, 117, 114, 97, 108, 115, 61, 51, 59, 92,
      110, 34, 10>>

\* msgid "" / msgstr "" /
BlkHeaderPlain ==
    <<109, 115, 103, 105, 100, 32, 34, 34, 10, 109, 115, 103, 115, 116,
      114, 32, 34, 34, 10>>

\* msgid "" /
BlkHeaderNoMsgstr ==
    <<109, 115, 103, 105, 100, 32, 34, 34, 10>>

\* msgid "a" / msgstr "x" /
BlkSingular ==
    <<109, 115, 103, 105, 100, 32, 34, 97, 34, 10, 109, 115, 103, 115,
      116, 114, 32, 34, 120, 34, 10>>

\* msgid "a" / msgstr "y" /
BlkSingularAgain ==
    <<109, 115, 103, 105, 100, 32, 34, 97, 34, 10, 109, 115, 103, 115,
      116, 114, 32, 34, 121, 34, 10>>

\* msgid "b" / msgstr "x" / msgstr "y" /
BlkSingularTwo ==
    <<109, 115, 103, 105, 100, 32, 34, 98, 34, 10, 109, 115, 103, 115,
      116, 114, 32, 34, 120, 34, 10, 109, 115, 103, 115, 116, 114, 32,
      34, 121, 34, 10>>

\* msgid "a" / msgid_plural "b" / msgstr[0] "x" /
BlkPluralOne ==
    <<109, 115, 103, 105, 100, 32, 34, 97, 34, 10, 109, 115, 103, 105,
      100, 95, 112, 108, 117, 114, 97, 108, 32, 34, 98, 34, 10, 109, 115,
      103, 115, 116, 114, 91, 48, 93, 32, 34, 120, 34, 10>>

\* msgid "a" / msgid_plural "b" / msgstr[0] "x" / msgstr[1] "y" /
BlkPluralTwo ==
    <<109, 115, 103, 105, 100, 32, 34, 97, 34, 10, 109, 115, 103, 105,
      100, 95, 112, 108, 117, 114, 97, 108, 32, 34, 98, 34, 10, 109, 115,
      103, 115, 116, 114, 91, 48, 93, 32, 34, 120, 34, 10, 109, 115, 103,
      115, 116, 114, 91, 49, 93, 32, 34, 121, 34, 10>>

\* msgid "a" / msgid_plural "b" / msgstr[0] "x" / msgstr[1] "y" / msgstr[2] "z" /
BlkPluralThree ==
    <<109, 115, 103, 105, 100, 32, 34, 97, 34, 10, 109, 115, 103, 105,
      100, 95, 112, 108, 117, 114, 97, 108, 32, 34, 98, 34, 10, 109, 115,
      103, 115, 116, 114, 91, 48, 93, 32, 34, 120, 34, 10, 109, 115, 103,
      115, 116, 114, 91, 49, 93, 32, 34, 121, 34, 10, 109, 115, 103, 115,
      116, 114, 91, 50, 93, 32, 34, 122, 34, 10>>

\* msgctxt "c" / msgid "a" / msgstr "z" /
BlkContext ==
    <<109, 115, 103, 99, 116, 120, 116, 32, 34, 99, 34, 10, 109, 115,
      103, 105, 100, 32, 34, 97, 34, 10, 109, 115, 103, 115, 116, 114,
      32, 34, 122, 34, 10>>

\* # t / #: r / msgid "b" / msgstr "x" /
BlkCommented ==
    <<35, 32, 116, 10, 35, 58, 32, 114, 10, 109, 115, 103, 105, 100, 32,
      34, 98, 34, 10, 109, 115, 103, 115, 116, 114, 32, 34, 120, 34, 10>>

\* #~ msgid "a" / #~ msgstr "o" /
BlkObsolete ==
    <<35, 126, 32, 109, 115, 103, 105, 100, 32, 34, 97, 34, 10, 35, 126,
      32, 109, 115, 103, 115, 116, 114, 32, 34, 111, 34, 10>>

\* #~ msgid "b" / #~ msgid_plural "p" / #~ msgid_plural "q" /
BlkObsoleteTwoPlurals ==
    <<35, 126, 32, 109, 115, 103, 105, 100, 32, 34, 98, 34, 10, 35, 126,
      32, 109, 115, 103, 105, 100, 95, 112, 108, 117, 114, 97, 108, 32,
      34, 112, 34, 10, 35, 126, 32, 109, 115, 103, 105, 100, 95, 112,
      108, 117, 114, 97, 108, 32, 34, 113, 34, 10>>

\* #~ msgid "" / #~ msgstr "o" /
BlkObsoleteHeader ==
    <<35, 126, 32, 109, 115, 103, 105, 100, 32, 34, 34, 10, 35, 126, 32,
      109, 115, 103, 115, 116, 114, 32, 34, 111, 34, 10>>

\* # t / msgid_plural "b" /
BlkLonePlural ==
    <<35, 32, 116, 10, 109, 115, 103, 105, 100, 95, 112, 108, 117, 114,
      97, 108, 32, 34, 98, 34, 10>>

\* msgid "q" / msgstr "x\"y" /
BlkQuoted ==
    <<109, 115, 103, 105, 100, 32, 34, 113, 34, 10, 109, 115, 103, 115,
      116, 114, 32, 34, 120, 92, 34, 121, 34, 10>>

\* msgid "u" / msgstr "" /
BlkUntranslated ==
    <<109, 115, 103, 105, 100, 32, 34, 117, 34, 10, 109, 115, 103, 115,
      116, 114, 32, 34, 34, 10>>

\* msgid "c<U+0004>a" / msgstr "w" /
BlkSeparatorInId ==
    <<109, 115, 103, 105, 100, 32, 34, 99, 4, 97, 34, 10, 109, 115, 103,
      115, 116, 114, 32, 34, 119, 34, 10>>

\* foo "x" /
BlkBadKey ==
    <<102, 111, 111, 32, 34, 120, 34, 10>>

\* msgstrX
BlkBadKeyAtEnd ==
    <<109, 115, 103, 115, 116, 114, 88>>

PoBlocks ==
    {BlkHeaderPlural3,
     BlkHeaderPlain,
     BlkHeaderNoMsgstr,
     BlkSingular,
     BlkSingularAgain,
     BlkSingularTwo,
     BlkPluralOne,
     BlkPluralTwo,
     BlkPluralThree,
     BlkContext,
     BlkCommented,
     BlkObsolete,
     BlkObsoleteTwoPlurals,
     BlkObsoleteHeader,
     BlkLonePlural,
     BlkQuoted,
     BlkUntranslated,
     BlkSeparatorInId,
     BlkBadKey,
     BlkBadKeyAtEnd}

PoInputs == {Cat(bs) : bs \in SeqsUpTo(PoBlocks, MaxBlocks)}

\* the fold widths po.compile is called with: none, narrow ones and the
\* default
PoFoldLengths == {0, DefaultFoldLength} \cup 2..MaxFold

InitPo ==
    /\ chunk \in PoInputs
    /\ validation \in BOOLEAN
    /\ ParserConstructed
    /\ foldLength \in PoFoldLengths
    /\ escapeCharacters = TRUE
    /\ valueRaw = <<>> /\ value = <<>> /\ pos = 0 /\ lines = <<>> /\ fpc = "idle"
    /\ rendered = <<>>
    /\ cpc = "start" /\ compiled = <<>> /\ parsed = [kind |-> "none"] /\ recompiled = <<>>
    /\ callerTable = <<>>
    /\ sort = "false"
    /\ MoIdle
    /\ StreamIdle
    /\ DuoIdle
    /\ GroupIdle

\* parse(): _lexer on the whole text, then _finalize
Parse ==
    /\ ppc = "lexing"
    /\ \E r \in {RunLexer(chunk, 0, state, escaped, lex, lineNumber)} :
           /\ state' = r.state /\ escaped' = r.escaped /\ lex' = r.lex
           /\ lineNumber' = r.lineNumber
           /\ lexI' = r.index
           /\ result' = ParseReturn(r, kwUtf8, validation)
    /\ ppc' = "done"
    /\ UNCHANGED <<chunk, validation, foldVars, rtVars, moVars, streamVars, duoVars, groupVars>>

\* po.compile(result.table, {foldLength})
CompileTable ==
    /\ ppc = "done" /\ result.kind = "table"
    /\ cpc = "start"
    /\ compiled' = CompileSorted(result.table, sort, foldLength, escapeCharacters, eolDefault)
    /\ callerTable' = PoConstructedTable(result.table)
    /\ cpc' = "compiled"
    /\ UNCHANGED <<parsed, recompiled, sort, foldVars, poVars, moVars, streamVars, duoVars,
                   groupVars>>

\* po.parse(compiled, {validation})
ParseCompiled ==
    /\ cpc = "compiled"
    /\ parsed' = ParseText(compiled, validation)
    /\ cpc' = "parsed"
    /\ UNCHANGED <<compiled, recompiled, callerTable, sort, foldVars, poVars, moVars,
                   streamVars, duoVars, groupVars>>

\* po.compile(parsed.table, {foldLength})
CompileParsed ==
    /\ cpc = "parsed" /\ parsed.kind = "table"
    /\ recompiled' = Compile(parsed.table, foldLength, escapeCharacters, eolDefault)
    /\ callerTable' = PoConstructedTable(parsed.table)
    /\ cpc' = "done"
    /\ UNCHANGED <<compiled, parsed, sort, foldVars, poVars, moVars, streamVars, duoVars,
                   groupVars>>

NextPo ==
    \/ Parse
    \/ CompileTable
    \/ ParseCompiled
    \/ CompileParsed

SpecPo == InitPo /\ [][NextPo]_vars

----------------------------------------------------------------------------
(* mo.compile of a table po.parse returned, then mo.parse of the buffer *)

\* buf with the bytes of each of its 32-bit fields in reverse order: the seven
\* words of the fixed header and the (length, offset) pairs of the two tables,
\* their number being the little-endian count at offset 8
SwapFields(buf) ==
    LET fields == 28 + 16 * ReadUInt32("readUInt32LE", buf, 8)
    IN  [k \in 1..Len(buf) |->
            IF k <= fields THEN buf[4 * ((k - 1) \div 4) + 4 - ((k - 1) % 4)]
            ELSE buf[k]]

\* the tables po.parse returns for the inputs of the model
MoTables ==
    {r.table : r \in {p \in {ParseText(c, FALSE) : c \in PoInputs} : p.kind = "table"}}

\* the tables handed to mo.compile: those, and each of them that has no
\* obsolete entries with its entries repeated as obsolete ones
MoInputs ==
    MoTables \cup {[t EXCEPT !.obsolete = <<t.translations>>] :
                      t \in {u \in MoTables : u.obsolete = <<>> /\ u.translations # <<>>}}

InitMo ==
    /\ moInput \in MoInputs
    /\ moTable = moInput
    /\ mpc = "start" /\ fileContents = <<>> /\ moResult = [kind |-> "none"]
    /\ emitted = <<>>
    /\ moRecompiled = [kind |-> "none"]
    /\ callerCharset = kwLatin1
    /\ FoldIdle
    /\ PoIdle
    /\ RtIdle
    /\ StreamIdle
    /\ DuoIdle
    /\ GroupIdle

\* mo.compile(moTable) returns a buffer
CompileMo ==
    /\ mpc = "start"
    /\ \E r \in {MoCompilerCompile(moTable)} :
           /\ r.kind = "buffer"
           /\ emitted' = r.buffer
           /\ fileContents' = r.buffer
           /\ moTable' = r.table
    /\ mpc' = "compiled"
    /\ UNCHANGED <<moInput, moResult, moRecompiled, callerCharset, foldVars, poVars, rtVars,
                   streamVars, duoVars, groupVars>>

\* mo.compile(moTable) throws
CompileMoThrow ==
    /\ mpc = "start"
    /\ \E r \in {MoCompilerCompile(moTable)} :
           /\ r.kind # "buffer"
           /\ moResult' = [kind |-> r.kind, what |-> r.what]
    /\ mpc' = "done"
    /\ UNCHANGED <<moInput, moTable, emitted, fileContents, moRecompiled, callerCharset, foldVars, poVars,
                   rtVars, streamVars, duoVars, groupVars>>

\* mo.parse(fileContents, callerCharset)
ParseMo ==
    /\ mpc = "compiled"
    /\ moResult' = MoParserParse(fileContents, callerCharset)
    /\ mpc' = "done"
    /\ UNCHANGED <<moInput, moTable, emitted, fileContents, moRecompiled, callerCharset, foldVars, poVars,
                   rtVars, streamVars, duoVars, groupVars>>

\* the caller swaps the bytes of every 32-bit field of the emitted buffer
\* before handing it to mo.parse
SwapEmitted ==
    /\ mpc = "compiled"
    /\ fileContents = emitted
    /\ fileContents' = SwapFields(emitted)
    /\ UNCHANGED <<mpc, moInput, moTable, emitted, moResult, moRecompiled, callerCharset, foldVars, poVars,
                   rtVars, streamVars, duoVars, groupVars>>

\* mo.compile(moResult.table), the table mo.parse returned
RecompileMo ==
    /\ mpc = "done"
    /\ moResult.kind = "table"
    /\ moRecompiled' = MoCompilerCompile(moResult.table)
    /\ mpc' = "recompiled"
    /\ UNCHANGED <<moInput, moTable, emitted, fileContents, moResult, callerCharset, foldVars, poVars,
                   rtVars, streamVars, duoVars, groupVars>>

NextMo ==
    \/ CompileMo
    \/ CompileMoThrow
    \/ SwapEmitted
    \/ ParseMo
    \/ RecompileMo

SpecMo == InitMo /\ [][NextMo]_vars

----------------------------------------------------------------------------
(* mo.parse of a buffer that need not be one mo.compile returned *)

\* the buffers mo.compile returns for the tables of the model
MoEncoded ==
    {r.buffer : r \in {c \in {MoCompilerCompile(t) : t \in MoTables} : c.kind = "buffer"}}

\* the buffers handed to mo.parse: each encoded buffer and its byte-swapped
\* form, either with its first byte zeroed or with a count of 2^30 entries,
\* and every prefix of these, the empty buffer included
MoBuffers ==
    LET whole == MoEncoded \cup {SwapFields(b) : b \in MoEncoded}
        damaged == {[b EXCEPT ![1] = 0] : b \in whole}
                   \cup {[b EXCEPT ![9] = 64, ![12] = 64] : b \in whole}
    IN  UNION {{SubSeq(b, 1, k) : k \in 0..Len(b)} : b \in whole \cup damaged}

InitMoDecode ==
    /\ fileContents \in MoBuffers
    /\ mpc = "compiled"
    /\ moInput = <<>> /\ moTable = <<>> /\ emitted = <<>>
    /\ moResult = [kind |-> "none"]
    /\ moRecompiled = [kind |-> "none"]
    /\ callerCharset = kwLatin1
    /\ FoldIdle
    /\ PoIdle
    /\ RtIdle
    /\ StreamIdle
    /\ DuoIdle
    /\ GroupIdle

NextMoDecode ==
    \/ ParseMo
    \/ RecompileMo

SpecMoDecode == InitMoDecode /\ [][NextMoDecode]_vars

----------------------------------------------------------------------------
(* chunks written to a PoParserTransform, then the end of the input *)

MaxChunks == 3       \* most chunks an input of the stream is written in

\* msgid "a" / msgstr "\u00e9\n": a two-byte character and an escape
PoEntryBytes ==
    <<109, 115, 103, 105, 100, 32, 34, 97, 34, 10, 109, 115, 103, 115, 116,
      114, 32, 34, 195, 169, 92, 110, 34, 10>>

\* msgid "" / msgstr "T: \u00e9; charset=utf-8\n": a header that names the charset
PoHeaderBytes ==
    <<109, 115, 103, 105, 100, 32, 34, 34, 10, 109, 115, 103, 115, 116, 114,
      32, 34, 84, 58, 32, 195, 169, 59, 32, 99, 104, 97, 114, 115, 101, 116,
      61, 117, 116, 102, 45, 56, 92, 110, 34, 10>>

\* msgie "a": a key the lexer rejects
PoBadKeyBytes ==
    <<109, 115, 103, 105, 101, 32, 34, 97, 34, 10>>

\* msgid "\u00e9" / msgstr "b" / # \u00e9, the text ending with the two bytes of \u00e9
PoTailBytes ==
    <<109, 115, 103, 105, 100, 32, 34, 195, 169, 34, 10, 109, 115, 103, 115,
      116, 114, 32, 34, 98, 34, 10, 35, 32, 195, 169>>

\* msgid "a" / msgstr "x" / msgid "a" / msgstr "y": an id declared twice
PoTwiceBytes ==
    <<109, 115, 103, 105, 100, 32, 34, 97, 34, 10, 109, 115, 103, 115, 116,
      114, 32, 34, 120, 34, 10, 109, 115, 103, 105, 100, 32, 34, 97, 34, 10,
      109, 115, 103, 115, 116, 114, 32, 34, 121, 34, 10>>

StreamInputs ==
    {<<>>, PoEntryBytes, PoHeaderBytes, PoBadKeyBytes, PoTailBytes, PoTwiceBytes}

\* the ways of cutting buf in k chunks, empty ones included
RECURSIVE Chunkings(_, _)
Chunkings(buf, k) ==
    IF k = 0 THEN (IF buf = <<>> THEN {<<>>} ELSE {})
    ELSE UNION {{<<SubSeq(buf, 1, j)>> \o rest :
                    rest \in Chunkings(SubSeq(buf, j + 1, Len(buf)), k - 1)} :
                j \in 0..Len(buf)}

StreamWrites == UNION {Chunkings(buf, k) : buf \in StreamInputs, k \in 0..MaxChunks}

InitStream ==
    /\ toWrite \in StreamWrites
    /\ initialTreshold \in {4, DefaultTreshold}
    /\ adapter \in {AdapterConstructed(strict) : strict \in BOOLEAN}
    /\ tpc = "writing" /\ received = <<>> /\ pushed = <<>> /\ finalized = 0
    /\ FoldIdle
    /\ PoIdle
    /\ RtIdle
    /\ MoIdle
    /\ DuoIdle
    /\ GroupIdle

\* stream.write(chunk): _transform, then done() or done(error)
Transform ==
    /\ tpc = "writing"
    /\ toWrite # <<>>
    /\ \E r \in {AdapterTransform(adapter, Head(toWrite), initialTreshold, kwLatin1)} :
           /\ adapter' = r
           /\ tpc' = IF r.error # <<>> THEN "errored" ELSE "writing"
    /\ toWrite' = Tail(toWrite)
    /\ received' = received \o Head(toWrite)
    /\ UNCHANGED <<initialTreshold, pushed, finalized, foldVars, poVars, rtVars, moVars,
                   duoVars, groupVars>>

\* stream.end(): _flush; the lexer or _finalize may throw
Flush ==
    /\ tpc = "writing"
    /\ toWrite = <<>>
    /\ \E r \in {AdapterFlush(adapter, kwLatin1)} :
           IF r.error # <<>>
               THEN /\ adapter' = r
                    /\ tpc' = "errored"
                    /\ UNCHANGED <<pushed, finalized>>
               ELSE \E f \in {FlushFinalize(r)} :
                        /\ finalized' = finalized + Len(f)
                        /\ pushed' = IF f # <<>> /\ f[1].kind = "table"
                                        THEN Append(pushed, f[1].table)
                                        ELSE pushed
                        \* _finalize throws at line 135, or done() at line 138
                        /\ adapter' = IF f # <<>> /\ f[1].kind # "table"
                                         THEN [r EXCEPT !.error = f]
                                         ELSE Called(r, "flush", <<>>)
                        /\ tpc' = IF f # <<>> /\ f[1].kind # "table" THEN "errored"
                                  ELSE "ended"
    /\ UNCHANGED <<toWrite, received, initialTreshold, foldVars, poVars, rtVars, moVars,
                   duoVars, groupVars>>

NextStream ==
    \/ Transform
    \/ Flush

SpecStream == InitStream /\ [][NextStream]_vars

\* po.parse and the MO codec side by side
InitCodec == InitPo \/ InitMo

NextCodec == NextPo \/ NextMo

SpecCodec == InitCodec /\ [][NextCodec]_vars

----------------------------------------------------------------------------
(* Properties of the lexer *)

\* the number of newline characters among the first k characters of s
NewlinesIn(s, k) == Cardinality({j \in 1..Min({k, Len(s)}) : s[j] = Chr.nl})

\* the key tokens of a token list whose text does not match keyNames
InvalidKeyTokens(tokens) ==
    {j \in 1..Len(tokens) : tokens[j].type = "key" /\ ~MatchesKeyNames(tokens[j].value)}

\* C9: when parse() has ended on an input that holds a key whose text does
\* not match msgctxt | msgid | msgid_plural | msgstr | msgstr[<digits>], it
\* has ended with the SyntaxError of the lexer, and not with a table.
C9_InvalidKeyRejected ==
    (ppc = "done" /\ InvalidKeyTokens(lex) # {}) => result.kind = "Syntax"

\* C10: while the lexer runs, its line counter is 1 plus the number of
\* newlines among the characters taken so far (the character under
\* examination counted or not), and the line number of a SyntaxError is
\* the line on which the offending key stands.
C10_LineCounter ==
    /\ ppc = "lexing" =>
          lineNumber \in {1 + NewlinesIn(chunk, lexI), 1 + NewlinesIn(chunk, lexI + 1)}
    /\ (ppc = "done" /\ result.kind = "Syntax") =>
          result.lineNumber = 1 + NewlinesIn(chunk, lexI)

----------------------------------------------------------------------------
(* Properties of parse(), stated on the entries the input holds *)

\* parse() went past the lexer and past _handleValues
Grouped == result.kind # "Syntax" /\ Grouping(lex, validation).thrown = <<>>

\* the entries of the input, in source order
EntriesRead == Grouping(lex, validation).entries

ContextOf(e) == IF e.msgctxt = <<>> THEN <<>> ELSE e.msgctxt[1]
KeyOf(e) == <<ContextOf(e), e.msgid>>
HeaderKey == <<<<>>, <<>>>>
\* the id "a"
kwA == <<97>>

RegularEntries(es) == {k \in 1..Len(es) : ~es[k].obsolete}
ObsoleteEntries(es) == {k \in 1..Len(es) : es[k].obsolete}

\* the last entry of the same kind (regular, obsolete) with the key of entry k
LastWithKey(es, k) ==
    Max({j \in 1..Len(es) : es[j].obsolete = es[k].obsolete /\ KeyOf(es[j]) = KeyOf(es[k])})

\* entry j is regular and an earlier regular entry has its (context, id)
IsDuplicateAt(es, j) ==
    /\ j \in RegularEntries(es)
    /\ \E h \in RegularEntries(es) : h < j /\ KeyOf(es[h]) = KeyOf(es[j])

\* the entry whose msgstr is read as the header: the first regular entry
\* with empty context and empty id (0 when there is none)
HeaderEntry(es) ==
    LET hs == {k \in RegularEntries(es) : KeyOf(es[k]) = HeaderKey}
    IN  IF hs = {} THEN 0 ELSE Min(hs)

\* the nplurals in force when entry k is validated
DeclaredNplurals(es, k) ==
    LET h == HeaderEntry(es)
    IN  IF h = 0 \/ h > k \/ es[h].msgstr = <<>> THEN 1
        ELSE parseNPluralFromHeadersSafely(parseHeader(es[h].msgstr[1][1]), 1)

\* entry k is regular and the number of its msgstr values is not the
\* number its kind asks for
CountMismatch(es, k) ==
    /\ k \in RegularEntries(es)
    /\ IF HasPluralId(es[k])
          THEN MsgstrCount(es[k]) # DeclaredNplurals(es, k)
          ELSE MsgstrCount(es[k]) # 1

\* entry k is the header entry and has no msgstr at all
HeaderWithoutMsgstr(es, k) == k = HeaderEntry(es) /\ es[k].msgstr = <<>>

\* entry k stops a parse with the given strictness
Stops(es, k, strict) ==
    \/ HeaderWithoutMsgstr(es, k)
    \/ strict /\ (IsDuplicateAt(es, k) \/ CountMismatch(es, k))

TableOf(r) == r.table.translations

\* C5: when the input holds two regular entries with the same (context,
\* id), a strict parse returns no table and, nothing before the second of
\* them having stopped the parse, fails with the Duplicate error at that
\* entry; a lenient parse that is not stopped elsewhere returns a table in
\* which every regular (context, id) holds the last entry read for it.
C5_Duplicates ==
    (ppc = "done" /\ Grouped /\ \E j \in 1..Len(EntriesRead) : IsDuplicateAt(EntriesRead, j))
    => LET es == EntriesRead
           j == Min({k \in 1..Len(es) : IsDuplicateAt(es, k)})
       IN  IF validation
              THEN /\ result.kind # "table"
                   /\ (\A k \in 1..(j - 1) : ~Stops(es, k, TRUE))
                        => result = [kind |-> "Duplicate", what |-> "msgid", at |-> j,
                                     obsolete |-> FALSE]
              ELSE (\A k \in 1..Len(es) : ~Stops(es, k, FALSE))
                   => /\ result.kind = "table"
                      /\ \A k \in RegularEntries(es) :
                            /\ SectionHas(TableOf(result), KeyOf(es[k])[1], KeyOf(es[k])[2])
                            /\ SectionGet(TableOf(result), KeyOf(es[k])[1], KeyOf(es[k])[2])
                                 = StoredEntry(es[LastWithKey(es, k)])

\* a strict parse has failed with the Duplicate error at the second of two
\* entries with the same (context, id)
C5_Witness ==
    /\ ppc = "done" /\ validation /\ chunk = BlkSingular \o BlkSingularAgain
    /\ result.kind = "Duplicate" /\ result.what = "msgid" /\ result.at = 2

\* C6: a strict parse returns no table when a regular entry has a plural
\* id and a number of msgstr values other than the declared nplurals, or no
\* plural id and a number other than 1; it fails with the Range error at
\* the first such entry unless the parse stopped before or the entry is a
\* duplicate; a Range error is only ever raised for such an entry, and an
\* input without any stopping entry is accepted.  A lenient parse raises
\* no Range error.
C6_PluralRange ==
    (ppc = "done" /\ Grouped)
    => LET es == EntriesRead
       IN  IF validation
              THEN /\ \A k \in 1..Len(es) :
                        CountMismatch(es, k)
                        => /\ result.kind # "table"
                           /\ ((\A h \in 1..(k - 1) : ~Stops(es, h, TRUE))
                               /\ ~IsDuplicateAt(es, k) /\ ~HeaderWithoutMsgstr(es, k))
                              => result = [kind |-> "Range",
                                           what |-> IF HasPluralId(es[k]) THEN "plural"
                                                    ELSE "singular",
                                           at |-> k, obsolete |-> FALSE]
                   /\ result.kind = "Range" => CountMismatch(es, result.at)
                   /\ (\A k \in 1..Len(es) : ~Stops(es, k, TRUE)) => result.kind = "table"
              ELSE result.kind # "Range"

\* with nplurals=3 declared, a strict parse has rejected a plural entry with
\* two msgstr values
C6_Witness ==
    /\ ppc = "done" /\ validation /\ Grouped
    /\ result.kind = "Range" /\ result.what = "plural"
    /\ DeclaredNplurals(EntriesRead, result.at) = 3
    /\ MsgstrCount(EntriesRead[result.at]) = 2

\* the keys of `translations` are those of the regular entries and the
\* keys of `obsolete` those of the obsolete entries, the `obsolete` map
\* being there only when an obsolete entry was read
StoredBySection(es, table) ==
    /\ SectionKeys(table.translations) = {KeyOf(es[k]) : k \in RegularEntries(es)}
    /\ (table.obsolete = <<>>) = (ObsoleteEntries(es) = {})
    /\ table.obsolete # <<>>
         => SectionKeys(table.obsolete[1]) = {KeyOf(es[k]) : k \in ObsoleteEntries(es)}

\* C7 (as stated): after parse(), regular entries are in `translations`
\* only and obsolete entries in `obsolete` only, the `obsolete` map being
\* there only when an obsolete entry was read; and no error of strict
\* validation is raised about an obsolete entry.
C7_ObsoleteIsolation ==
    (ppc = "done" /\ result.kind # "Syntax")
    => /\ result.kind = "table" => StoredBySection(EntriesRead, result.table)
       /\ result.kind \in {"Duplicate", "Range"} => ~result.obsolete

\* C7 (amended): as above, but the only errors of strict validation an
\* obsolete entry escapes are those of _validateToken (duplicate id, plural
\* range, singular range): a parse that is stopped by no regular entry
\* returns a table whatever its obsolete entries hold, and the one error
\* raised about an obsolete entry is that of a second msgid_plural.
C7_ObsoleteIsolationAmended ==
    (ppc = "done" /\ result.kind # "Syntax")
    => /\ result.kind = "table" => StoredBySection(EntriesRead, result.table)
       /\ (result.kind \in {"Duplicate", "Range"} /\ result.obsolete)
            => result.what = "msgid_plural"
       /\ (Grouped /\ \A k \in 1..Len(EntriesRead) : ~Stops(EntriesRead, k, validation))
            => result.kind = "table"

\* a strict parse has returned a table that holds the same (context, id)
\* once in `translations` and once in `obsolete`
C7_Witness ==
    /\ ppc = "done" /\ validation /\ result.kind = "table"
    /\ result.table.obsolete # <<>>
    /\ <<<<>>, kwA>> \in SectionKeys(TableOf(result))
    /\ <<<<>>, kwA>> \in SectionKeys(result.table.obsolete[1])

\* C8: parse() ends with a table or with one of the errors Syntax,
\* Duplicate and Range.
C8_TableOrPoError ==
    ppc = "done" => result.kind \in {"table", "Syntax", "Duplicate", "Range"}

----------------------------------------------------------------------------
(* Round trip of the PO codec *)

\* The table is in the order po.compile writes: the default context, when
\* the table has it, is the first of its contexts, and the header entry,
\* when the table has it, is the first of its entries.
InCompileOrder(table) ==
    MapHas(table.translations, <<>>)
    => /\ table.translations[1].key = <<>>
       /\ MapHas(table.translations[1].val, <<>>) => table.translations[1].val[1].key = <<>>

\* C3: the text po.compile writes with a fold width parses, and compiling
\* the parsed table with the same fold width gives the same text back (for
\* a table in the order po.compile writes, as is a table parsed from a text
\* that begins with the header entry).
C3_PoRoundTrip ==
    (cpc = "done" /\ InCompileOrder(result.table)) => recompiled = compiled

----------------------------------------------------------------------------
(* Round trip of the MO codec *)

\* every (context, id) entry of the table has a non-empty translation
AllTranslated(table) ==
    /\ ~SomeEntryLacksMsgstr(table.translations)
    /\ \A key \in SectionKeys(table.translations) :
          HasTranslation(SectionGet(table.translations, key[1], key[2]))

\* the id, the plural id (none and the empty one alike) and the translation
\* list of two entries are the same
SameTranslation(e, d) ==
    /\ e.msgid = d.msgid
    /\ HasPluralId(e) = HasPluralId(d)
    /\ HasPluralId(e) => e.msgid_plural[1] = d.msgid_plural[1]
    /\ e.msgstr = d.msgstr

\* no context, id or plural id of the table holds U+0004 or U+0000, and no
\* translation holds U+0000: the characters the MO keys and values are
\* joined with
SeparatorFree(table) ==
    LET free(str) == \A k \in 1..Len(str) : str[k] \notin {0, 4}
    IN  \A key \in SectionKeys(table.translations) :
            LET e == SectionGet(table.translations, key[1], key[2])
            IN  /\ free(key[1]) /\ free(key[2])
                /\ HasPluralId(e) => free(e.msgid_plural[1])
                /\ \A j \in 1..MsgstrCount(e) : 0 \notin {e.msgstr[1][j][k] :
                                                            k \in 1..Len(e.msgstr[1][j])}

----------------------------------------------------------------------------
(* Where the header entry is kept *)

\* an obsolete entry with empty context and empty id was read by po.parse
ObsoleteHeaderRead ==
    \E k \in ObsoleteEntries(EntriesRead) : KeyOf(EntriesRead[k]) = HeaderKey

\* the header entry is a key of neither map of the table
HeaderOnlyInHeaders(table) ==
    /\ HeaderKey \notin SectionKeys(table.translations)
    /\ table.obsolete # <<>> => HeaderKey \notin SectionKeys(table.obsolete[1])

\* the header entry is a key of `translations` exactly when the table has
\* the `headers` map
HeaderKeptAsEntry(table) ==
    (table.headers # <<>>) = (HeaderKey \in SectionKeys(table.translations))

\* C4 (as stated): in a table po.parse or mo.parse returned, the header
\* entry ("", "") is a key neither of `translations` nor of `obsolete`.
C4_HeaderNotAnEntry ==
    /\ (ppc = "done" /\ result.kind = "table") => HeaderOnlyInHeaders(result.table)
    /\ (mpc = "done" /\ moResult.kind = "table") => HeaderOnlyInHeaders(moResult.table)

\* C4 (amended): in a table po.parse returned, or mo.parse returned for a
\* buffer mo.compile wrote, the header entry ("", "") is a key of
\* `translations` exactly when the table has the `headers` map (the map is
\* parsed from the msgstr of that entry, which stays in `translations`);
\* it is a key of `obsolete` only when an obsolete entry with empty context
\* and empty id was read; a table mo.parse returned has no `obsolete` map.
C4_HeaderKeptAsEntry ==
    /\ (ppc = "done" /\ result.kind = "table")
         => /\ HeaderKeptAsEntry(result.table)
            /\ (result.table.obsolete # <<>>
                /\ HeaderKey \in SectionKeys(result.table.obsolete[1]))
                 => ObsoleteHeaderRead
    /\ (mpc = "done" /\ moResult.kind = "table")
         => /\ HeaderKeptAsEntry(moResult.table)
            /\ moResult.table.headers # <<>>
            /\ moResult.table.obsolete = <<>>

\* mo.parse has returned a table with the header entry in `translations`
\* for the encoding of a table po.parse returned with the header entry in
\* `translations` and the headers parsed from it
C4_Witness ==
    /\ mpc = "done" /\ moResult.kind = "table"
    /\ moInput.headers # <<>> /\ HeaderKey \in SectionKeys(moInput.translations)
    /\ moResult.table.headers # <<>>
    /\ HeaderKey \in SectionKeys(moResult.table.translations)

----------------------------------------------------------------------------
(* MO decode: the failure value *)

\* the 32-bit word at offset 0 is the magic number in one of the byte orders
MagicMatches(buf) ==
    /\ Len(buf) >= 4
    /\ \/ SubSeq(buf, 1, 4) = MAGIC
       \/ SubSeq(buf, 1, 4) = <<MAGIC[4], MAGIC[3], MAGIC[2], MAGIC[1]>>

\* C11: mo.parse returns false, without raising, exactly when the word at
\* offset 0 is the magic number in neither byte order, and returns a table for
\* every buffer whose magic number matches in one of the two byte orders.
C11_FalseIffNoMagic ==
    mpc = "done" =>
        /\ moResult.kind = "false" <=> ~MagicMatches(fileContents)
        /\ MagicMatches(fileContents) => moResult.kind = "table"

----------------------------------------------------------------------------
(* MO decode of a byte-swapped buffer, and MO encode of what it returns *)

\* the fields of a little-endian buffer: the number of entries, pair i
\* (0-based) of the table at tableOff, and the bytes a pair points at
EntryCount(buf) == ReadUInt32("readUInt32LE", buf, 8)

TablePair(buf, tableOff, i) ==
    [length |-> ReadUInt32("readUInt32LE", buf, tableOff + 8 * i),
     offset |-> ReadUInt32("readUInt32LE", buf, tableOff + 8 * i + 4)]

BodyAt(buf, pair) == Subarray(buf, pair.offset, pair.offset + pair.length)

KeyAt(buf, i) == BodyAt(buf, TablePair(buf, ReadUInt32("readUInt32LE", buf, 12), i))

ValueAt(buf, i) == BodyAt(buf, TablePair(buf, ReadUInt32("readUInt32LE", buf, 16), i))

\* no two entries of the buffer have the same key
DistinctKeys(buf) ==
    \A i, j \in 0..(EntryCount(buf) - 1) : i # j => KeyAt(buf, i) # KeyAt(buf, j)

----------------------------------------------------------------------------
(* MO encode: the size, the fixed header and the layout of the buffer *)

\* the list mo.compile built the emitted buffer from, in the order written
WrittenList == SortByMsgid(GenerateList(moTable))

\* C13: the emitted buffer has 28 + 16n + sum(key length + 1) +
\* sum(value length + 1) bytes for its n entries, and its first seven
\* little-endian words are the magic number, 0, n, 28, 28 + 8n, 0 and 28 + 16n.
C13_SizeAndHeader ==
    emitted # <<>> =>
        LET n == Len(WrittenList)
            lengths == [j \in 1..n |-> (Len(WrittenList[j].msgid) + 1)
                                       + (Len(WrittenList[j].msgstr) + 1)]
        IN  /\ Len(emitted) = 28 + 16 * n + SumOf(lengths)
            /\ SubSeq(emitted, 1, 4) = <<222, 18, 4, 149>>
            /\ SubSeq(emitted, 5, 8) = <<0, 0, 0, 0>>
            /\ SubSeq(emitted, 9, 12) = <<n % 256, n \div 256, 0, 0>>
            /\ SubSeq(emitted, 13, 16) = <<28, 0, 0, 0>>
            /\ SubSeq(emitted, 17, 20) = <<(28 + 8 * n) % 256, (28 + 8 * n) \div 256, 0, 0>>
            /\ SubSeq(emitted, 21, 24) = <<0, 0, 0, 0>>
            /\ SubSeq(emitted, 25, 28) = <<(28 + 16 * n) % 256, (28 + 16 * n) \div 256, 0, 0>>

\* a buffer of three entries, one of them a plural entry, was emitted
C13_Witness ==
    /\ mpc = "compiled"
    /\ fileContents = emitted
    /\ Len(WrittenList) = 3
    /\ \E j \in 1..3 : 0 \in {WrittenList[j].msgstr[k] : k \in 1..Len(WrittenList[j].msgstr)}

\* the (length, offset) pairs of the emitted buffer in the order of their
\* bodies, the originals table before the translations table, and the key
\* or value each pair stands for
PairsInOrder ==
    [j \in 1..(2 * EntryCount(emitted)) |->
        IF j <= EntryCount(emitted) THEN TablePair(emitted, 28, j - 1)
        ELSE TablePair(emitted, 28 + 8 * EntryCount(emitted), j - 1 - EntryCount(emitted))]

BodiesInOrder ==
    [j \in 1..(2 * Len(WrittenList)) |->
        IF j <= Len(WrittenList) THEN WrittenList[j].msgid
        ELSE WrittenList[j - Len(WrittenList)].msgstr]

\* C20: pair i of the originals table is (length of key i, offset) and pair i
\* of the translations table is (length of value i, offset), the bytes at
\* [offset, offset + length) being that key or value and the byte after them
\* 0x00; the bodies start at 28 + 16n, follow one another without gap or
\* overlap, keys before values in table order, and the terminator of the last
\* one is the last byte of the buffer.
C20_TablesAndBodies ==
    emitted # <<>> =>
        /\ EntryCount(emitted) = Len(WrittenList)
        /\ \A j \in 1..(2 * Len(WrittenList)) :
              /\ PairsInOrder[j].length = Len(BodiesInOrder[j])
              /\ PairsInOrder[j].offset + PairsInOrder[j].length < Len(emitted)
              /\ SubSeq(emitted, PairsInOrder[j].offset + 1,
                        PairsInOrder[j].offset + PairsInOrder[j].length) = BodiesInOrder[j]
              /\ emitted[PairsInOrder[j].offset + PairsInOrder[j].length + 1] = 0
              /\ PairsInOrder[j].offset =
                     IF j = 1 THEN 28 + 16 * Len(WrittenList)
                     ELSE PairsInOrder[j - 1].offset + PairsInOrder[j - 1].length + 1
        /\ PairsInOrder[2 * Len(WrittenList)].offset
              + PairsInOrder[2 * Len(WrittenList)].length + 1 = Len(emitted)

\* a buffer of three entries with a key of more than one byte was emitted
C20_Witness ==
    /\ mpc = "compiled"
    /\ EntryCount(emitted) = 3
    /\ \E i \in 0..2 : Len(KeyAt(emitted, i)) > 1
    /\ \E i \in 0..2 : Len(ValueAt(emitted, i)) > 1 /\ KeyAt(emitted, i) # <<>>

----------------------------------------------------------------------------
(* MO encode: the entries written *)

\* the (context, id) positions of a section, and the key and value MO encode
\* writes for the entry at one of them
SlotsOf(section) ==
    UNION {{<<c, j>> : j \in 1..Len(section[c].val)} : c \in 1..Len(section)}

WrittenPairFor(section, slot, charset) ==
    LET context == section[slot[1]].key
        e == section[slot[1]].val[slot[2]].val
    IN  <<EncodeText((IF context # <<>> THEN context \o <<4>> ELSE <<>>)
                     \o section[slot[1]].val[slot[2]].key
                     \o (IF HasPluralId(e) THEN <<0>> \o e.msgid_plural[1] ELSE <<>>),
                     charset),
          EncodeText(Join(e.msgstr[1], <<0>>), charset)>>

\* the positions of the entries other than ("", "") with a non-empty translation
TranslatedSlots(section) ==
    {slot \in SlotsOf(section) :
        /\ ~(section[slot[1]].key = <<>> /\ section[slot[1]].val[slot[2]].key = <<>>)
        /\ \E k \in 1..Len(section[slot[1]].val[slot[2]].val.msgstr[1]) :
              section[slot[1]].val[slot[2]].val.msgstr[1][k] # <<>>}

\* the (key, value) pairs of the buffer, in table order
PairsWritten(buf) == [i \in 1..EntryCount(buf) |-> <<KeyAt(buf, i - 1), ValueAt(buf, i - 1)>>]

\* C14: the entries of the emitted buffer are one entry with the empty key
\* and one entry for each (context, id) of translations, other than ("", ""),
\* that has a non-empty translation, and nothing else; the buffer is the one
\* emitted for the same table without its obsolete entries.
C14_EntriesWritten ==
    emitted # <<>> =>
        /\ Cardinality({i \in 1..EntryCount(emitted) : KeyAt(emitted, i - 1) = <<>>}) = 1
        /\ EntryCount(emitted) = 1 + Cardinality(TranslatedSlots(moInput.translations))
        /\ \A slot \in TranslatedSlots(moInput.translations) :
              Cardinality({i \in 1..EntryCount(emitted) :
                              PairsWritten(emitted)[i]
                              = WrittenPairFor(moInput.translations, slot, moTable.charset)})
              = Cardinality({other \in TranslatedSlots(moInput.translations) :
                                WrittenPairFor(moInput.translations, other, moTable.charset)
                                = WrittenPairFor(moInput.translations, slot, moTable.charset)})
        /\ emitted = MoCompilerCompile([moInput EXCEPT !.obsolete = <<>>]).buffer

\* a table with obsolete entries, an entry with a translation and an entry
\* whose translations are all empty was encoded
C14_Witness ==
    /\ mpc = "compiled"
    /\ moInput.obsolete # <<>>
    /\ moInput.obsolete[1] # <<>>
    /\ TranslatedSlots(moInput.translations) # {}
    /\ TranslatedSlots(moInput.translations) # SlotsOf(moInput.translations)
    /\ \A slot \in SlotsOf(moInput.translations) :
          ~(moInput.translations[slot[1]].key = <<>>
            /\ moInput.translations[slot[1]].val[slot[2]].key = <<>>)

----------------------------------------------------------------------------
(* PO compile and MO encode: the caller's table *)

\* C15: after po.compile and after mo.compile the table the caller passed
\* has the translations, the headers and the charset it had before the call.
C15_CallerTableUntouched ==
    /\ (mpc \in {"compiled", "done", "recompiled"} /\ moInput # <<>>)
           => /\ moTable.translations = moInput.translations
              /\ moTable.headers = moInput.headers
              /\ moTable.charset = moInput.charset
    /\ cpc = "compiled"
           => /\ callerTable.translations = result.table.translations
              /\ callerTable.headers = result.table.headers
              /\ callerTable.charset = result.table.charset

----------------------------------------------------------------------------
(* The streaming adapter *)

\* C16: for every sequence of chunks followed by the end of the input,
\* _finalize is called exactly once, at flush, and exactly one table is
\* pushed; nothing is pushed before the end of the input.
C16_OneTableAtFlush ==
    /\ tpc = "writing" => (finalized = 0 /\ pushed = <<>>)
    /\ tpc = "ended" => (finalized = 1 /\ Len(pushed) = 1)

\* the byte ranges handed to the lexer so far, one after another
HandedBytes == Cat([j \in 1..Len(adapter.handed) |-> adapter.handed[j].range])

\* C17: the ranges handed to the lexer, flush included, concatenate to the
\* concatenation of the chunks; before flush they and the bytes held back do,
\* the bytes held back being a run of bytes >= 0x80; every range handed
\* before flush ends with a byte < 0x80.
C17_RangesConcatenate ==
    /\ tpc = "ended" => HandedBytes = received
    /\ tpc = "writing" => HandedBytes \o adapter.cache = received
    /\ (tpc = "writing" /\ adapter.parserMade)
           => \A k \in 1..Len(adapter.cache) : adapter.cache[k] >= 128
    /\ tpc \in {"writing", "ended"}
           => \A j \in 1..Len(adapter.handed) :
                  /\ adapter.handed[j].range # <<>>
                  /\ ~adapter.handed[j].atFlush
                        => adapter.handed[j].range[Len(adapter.handed[j].range)] < 128

\* the input was written in three chunks to a parser made at the first: a
\* range that begins with the first byte of a two-byte character was handed
\* to the lexer before flush, and the two bytes >= 0x80 that end the input,
\* held back, were handed to it at flush
C17_Witness ==
    /\ tpc = "ended"
    /\ Len(adapter.handed) = 3
    /\ ~adapter.handed[2].atFlush /\ adapter.handed[2].range[1] = 195
    /\ adapter.handed[3].atFlush /\ adapter.handed[3].range = <<195, 169>>
    /\ HandedBytes = PoTailBytes

----------------------------------------------------------------------------
(* the lexer fed in pieces, the stream parse and the one-shot parse *)

\* _lexer on the text of all the bytes handed to it so far, in one call on a
\* parser just constructed
LexedAtOnce ==
    RunLexer(DecodeText(HandedBytes, adapter.charset), 0, "none", FALSE, <<>>, 1)

\* the tokens, the state, the escape flag and the line counter of the
\* parser of the stream are those of one call on the whole text
SameAsAtOnce(r) ==
    /\ r.thrown = <<>>
    /\ adapter.lex = r.lex
    /\ adapter.state = r.state
    /\ adapter.escaped = r.escaped
    /\ adapter.lineNumber = r.lineNumber

LexerSplitEquivalent ==
    (tpc \in {"writing", "ended"} /\ adapter.parserMade) => SameAsAtOnce(LexedAtOnce)

\* po.parse(received, {validation}) with the default charset of the stream
OneShot == ParseBuffer(received, kwLatin1, adapter.validation)

StreamTableIsOneShot(r) == r.kind = "table" /\ pushed = <<r.table>>

\* C18 as stated: feeding the text in pieces to one lexer leaves the tokens
\* and the state of one call on the whole text, and the table a stream parse
\* emits is the table of a one-shot parse of the whole input.
C18_ChunkedEqualsOneShot ==
    /\ LexerSplitEquivalent
    /\ (tpc = "ended" /\ adapter.parserMade) => StreamTableIsOneShot(OneShot)

\* C18 amended: feeding the text in pieces to one lexer leaves the tokens
\* and the state of one call on the whole text, and the table a stream parse
\* emits is the table of a one-shot parse of the whole input when the charset
\* detected in the bytes the parser was constructed from is the charset
\* detected in the whole input.
C18_ChunkedEqualsOneShotAmended ==
    /\ LexerSplitEquivalent
    /\ (tpc = "ended" /\ adapter.parserMade
            /\ adapter.charset = HandleCharset(received, kwLatin1))
          => StreamTableIsOneShot(OneShot)

\* the stream has ended after the lexer was fed three ranges, one cut
\* between a backslash and the character it escapes, one cut inside a key,
\* and the table emitted is the table of the one-shot parse
C18_Witness ==
    /\ tpc = "ended"
    /\ received = PoEntryBytes
    /\ Len(adapter.handed) = 3
    /\ adapter.handed[1].range = SubSeq(PoEntryBytes, 1, 12)
    /\ adapter.handed[2].range[Len(adapter.handed[2].range)] = 92
    /\ pushed = <<OneShot.table>>

----------------------------------------------------------------------------
(* two PoParser instances on distinct strings, their lexers advancing in   *)
(* any order.  parsers[i] holds the fields of instance i: its input, the   *)
(* index its lexer has reached, _state, _escaped, _lex, _lineNumber, its   *)
(* validation option and what its parse() has returned or thrown.          *)

\* msgid "a\n" / msgstr "x" /
DuoEscapeText ==
    <<109, 115, 103, 105, 100, 32, 34, 97, 92, 110, 34, 10, 109, 115, 103, 115,
      116, 114, 32, 34, 120, 34, 10>>

\* # c / msgid "b" / msgstr "y" /
DuoCommentText ==
    <<35, 32, 99, 10, 109, 115, 103, 105, 100, 32, 34, 98, 34, 10, 109, 115,
      103, 115, 116, 114, 32, 34, 121, 34, 10>>

DuoInputs == {DuoEscapeText, DuoCommentText, PoBadKeyBytes, PoTwiceBytes}

\* new PoParser(text, {validation}) for a string
InstanceConstructed(text, strict) ==
    [chunk |-> text, index |-> 0, state |-> "none", escaped |-> FALSE, lex |-> <<>>,
     lineNumber |-> 1, validation |-> strict, pc |-> "lexing",
     result |-> [kind |-> "none"]]

\* a mutation of InstanceLexed: the fields of the lexer belong to the class
InstanceLexedShared(all, i, r) ==
    [j \in DOMAIN all |->
        [all[j] EXCEPT !.state = r.state, !.escaped = r.escaped, !.lex = r.lex,
                       !.lineNumber = r.lineNumber,
                       !.index = IF j = i THEN r.index ELSE @]]

\* the instances after the lexer of instance i has assigned its fields
\* (this._state, this._escaped, this._lex, this._lineNumber)
InstanceLexed(all, i, r) ==
    [all EXCEPT ![i].state = r.state, ![i].escaped = r.escaped, ![i].lex = r.lex,
                ![i].lineNumber = r.lineNumber, ![i].index = r.index]

\* the lexer of instance i as it enters the rounds spent on its next character
InstanceLexer(all, i) ==
    [state |-> all[i].state, escaped |-> all[i].escaped, lex |-> all[i].lex,
     lineNumber |-> all[i].lineNumber, index |-> all[i].index, thrown |-> <<>>]

InitDuo ==
    /\ parsers \in {<<InstanceConstructed(t1, s1), InstanceConstructed(t2, s2)>> :
                        t1 \in DuoInputs, t2 \in DuoInputs, s1 \in BOOLEAN, s2 \in BOOLEAN}
    /\ parsers[1].chunk # parsers[2].chunk
    /\ FoldIdle
    /\ PoIdle
    /\ RtIdle
    /\ MoIdle
    /\ StreamIdle
    /\ GroupIdle

\* instance i lexes its next character without throwing
DuoLexerStep(i) ==
    /\ parsers[i].pc = "lexing"
    /\ parsers[i].index < Len(parsers[i].chunk)
    /\ \E r \in {LexerCharacter(InstanceLexer(parsers, i),
                                  parsers[i].chunk[parsers[i].index + 1])} :
           /\ r.thrown = <<>>
           /\ parsers' = InstanceLexed(parsers, i, r)
    /\ UNCHANGED <<foldVars, poVars, rtVars, moVars, streamVars, groupVars>>

\* the lexer of instance i throws the SyntaxError out of its parse()
DuoLexerThrow(i) ==
    /\ parsers[i].pc = "lexing"
    /\ parsers[i].index < Len(parsers[i].chunk)
    /\ \E r \in {LexerCharacter(InstanceLexer(parsers, i),
                                  parsers[i].chunk[parsers[i].index + 1])} :
           /\ r.thrown # <<>>
           /\ parsers' = [InstanceLexed(parsers, i, r) EXCEPT ![i].pc = "done",
                                                               ![i].result = r.thrown[1]]
    /\ UNCHANGED <<foldVars, poVars, rtVars, moVars, streamVars, groupVars>>

\* the lexer of instance i returns and its parse() returns
\* this._finalize(this._lex)
DuoFinalize(i) ==
    /\ parsers[i].pc = "lexing"
    /\ parsers[i].index >= Len(parsers[i].chunk)
    /\ parsers' = [parsers EXCEPT ![i].pc = "done",
                                  ![i].result = Finalize(parsers[i].lex, kwUtf8,
                                                         parsers[i].validation)]
    /\ UNCHANGED <<foldVars, poVars, rtVars, moVars, streamVars, groupVars>>

NextDuo ==
    \E i \in 1..2 :
        \/ DuoLexerStep(i)
        \/ DuoLexerThrow(i)
        \/ DuoFinalize(i)

SpecDuo == InitDuo /\ [][NextDuo]_vars

----------------------------------------------------------------------------
(* instances do not interfere *)

\* the lexer of a parser that runs alone, after the first k characters of text
LexedAlone(text, k) == RunLexer(SubSeq(text, 1, k), 0, "none", FALSE, <<>>, 1)

\* instance p is where a parser that runs alone on its input is
AsAlone(p) ==
    /\ p.pc = "lexing" =>
          \E r \in {LexedAlone(p.chunk, p.index)} :
              /\ r.thrown = <<>>
              /\ p.lex = r.lex /\ p.state = r.state /\ p.escaped = r.escaped
              /\ p.lineNumber = r.lineNumber
    /\ p.pc = "done" => p.result = ParseText(p.chunk, p.validation)

\* C19: two parsers on distinct inputs whose steps are interleaved in any
\* order each hold, at every step, the tokens, state, escape flag and line
\* counter of a parser that runs alone on the same input, and each returns
\* or throws what it returns or throws alone.
C19_InstancesIndependent ==
    \A i \in DOMAIN parsers : AsAlone(parsers[i])

\* both parsers are part-way through their inputs, the first right after a
\* backslash inside a string, the second inside a key, with different token
\* buffers and line counters
C19_Witness ==
    /\ parsers # <<>>
    /\ parsers[1].pc = "lexing" /\ parsers[1].state = "string" /\ parsers[1].escaped
    /\ parsers[2].pc = "lexing" /\ parsers[2].state = "key" /\ parsers[2].index > 4
    /\ parsers[1].lineNumber # parsers[2].lineNumber
    /\ parsers[1].lex # parsers[2].lex

----------------------------------------------------------------------------
(* mo.compile and mo.parse of tables whose text is not ASCII, in utf-8 and *)
(* in a one-byte charset                                                   *)

MaxIds == 3       \* most entries of a table besides its header

\* text/plain; charset=utf-8
ctUtf8 == kwTextPlain \o <<59, 32>> \o kwCharset \o <<61>> \o kwUtf8

\* text/plain; charset=iso-8859-1
ctLatin1 == kwTextPlain \o <<59, 32>> \o kwCharset \o <<61>> \o kwLatin1

\* the headers of a table: Content-Type (when given) and T: \u00e9
CharsetHeaders(ct) ==
    (IF ct = <<>> THEN <<>> ELSE <<[key |-> kwContentType, val |-> ct]>>)
    \o <<[key |-> <<84>>, val |-> <<233>>]>>

\* the entry of id whose translation is the id followed by \u00e8
CharsetEntry(id) ==
    [key |-> id,
     val |-> [msgid |-> id, msgctxt |-> <<>>, msgid_plural |-> <<>>,
              msgstr |-> <<<<id \o <<232>>>>>>, comments |-> <<>>]]

\* the ids a, z, \u00e0 and \u00e9
CharsetIds == {<<97>>, <<122>>, <<224>>, <<233>>}

CharsetIdLists ==
    {ids \in SeqsUpTo(CharsetIds, MaxIds) :
        \A j, k \in 1..Len(ids) : j # k => ids[j] # ids[k]}

CharsetTables ==
    {[charset |-> cs, headers |-> <<CharsetHeaders(ct)>>,
      translations |-> IF ids = <<>> THEN <<>>
                       ELSE <<[key |-> <<>>,
                               val |-> [j \in 1..Len(ids) |-> CharsetEntry(ids[j])]]>>,
      obsolete |-> <<>>] :
        cs \in {kwUtf8, kwLatin1}, ct \in {<<>>, ctUtf8, ctLatin1}, ids \in CharsetIdLists}

InitMoCharset ==
    /\ moInput \in CharsetTables
    /\ moTable = moInput
    /\ callerCharset \in {kwLatin1, kwUtf8}
    /\ mpc = "start" /\ fileContents = <<>> /\ moResult = [kind |-> "none"]
    /\ emitted = <<>>
    /\ moRecompiled = [kind |-> "none"]
    /\ FoldIdle
    /\ PoIdle
    /\ RtIdle
    /\ StreamIdle
    /\ DuoIdle
    /\ GroupIdle

NextMoCharset ==
    \/ CompileMo
    \/ ParseMo

SpecMoCharset == InitMoCharset /\ [][NextMoCharset]_vars

----------------------------------------------------------------------------
(* the order of the entries of an emitted buffer *)

\* the keys and values of the emitted buffer, in the order of its tables
EmittedPairs ==
    [j \in 1..EntryCount(emitted) |->
        [msgid |-> KeyAt(emitted, j - 1), msgstr |-> ValueAt(emitted, j - 1)]]

\* the keys and values of the walk over the caller's table, header first
WalkedPairs == GenerateList(moTable)

\* pi arranges the walk in ascending order of key, entries of equal key in
\* the order of the walk
StablyAscending(walk, pi) ==
    \A j, k \in 1..Len(walk) :
        j < k => \/ StrLess(walk[pi[j]].msgid, walk[pi[k]].msgid)
                 \/ (walk[pi[j]].msgid = walk[pi[k]].msgid /\ pi[j] < pi[k])

\* C21: in every buffer mo.compile emits the keys are in ascending
\* lexicographic order, entries of equal key are in the order of the table
\* walk, each value stands at the index of its key, and entry 0 is the header
\* entry, whose key is empty.
C21_SortedStable ==
    emitted # <<>> =>
        /\ EntryCount(emitted) = Len(WalkedPairs)
        /\ \E pi \in Permutations(1..Len(WalkedPairs)) :
               /\ StablyAscending(WalkedPairs, pi)
               /\ EmittedPairs = [j \in 1..Len(WalkedPairs) |-> WalkedPairs[pi[j]]]
        /\ EmittedPairs[1] = WalkedPairs[1]
        /\ EmittedPairs[1].msgid = <<>>

----------------------------------------------------------------------------
(* the charset mo.parse converts with *)

\* the table that holds the pairs from the k-th on, each converted from cs
RECURSIVE PairsAdded(_, _, _, _)
PairsAdded(pairs, k, cs, table) ==
    IF k > Len(pairs) THEN table
    ELSE PairsAdded(pairs, k + 1, cs,
                    AddString(table, DecodeText(pairs[k].msgid, cs),
                              DecodeText(pairs[k].msgstr, cs)))

\* the charset the header block names, the default of the caller when it
\* names none
CharsetInEffect(block, default) ==
    IF MatchCharset(Utf8Decode(block)) = <<>> THEN default
    ELSE formatCharset(MatchCharset(Utf8Decode(block))[1], default)

\* the table whose headers, keys and values are all converted from cs
AllConvertedFrom(pairs, cs) ==
    PairsAdded(pairs, 1, cs,
               [EmptyTable(cs) EXCEPT !.headers = <<parseHeader(DecodeText(pairs[1].msgstr, cs))>>])

\* C22: when entry 0 of the buffer has an empty key, the table mo.parse
\* returns has the charset its header block names (the default of the caller
\* when it names none), and every key and value of the table, the value of
\* entry 0 included, is the text converted from that charset.
C22_HeaderCharsetConvertsAll ==
    (mpc = "done" /\ moResult.kind = "table" /\ EmittedPairs[1].msgid = <<>>) =>
        /\ moResult.table.charset = CharsetInEffect(EmittedPairs[1].msgstr, callerCharset)
        /\ moResult.table =
              AllConvertedFrom(EmittedPairs,
                               CharsetInEffect(EmittedPairs[1].msgstr, callerCharset))

----------------------------------------------------------------------------
(* _handleValues, then _normalize, on the records _handleKeys returned: a  *)
(* few records in every order, and the records of the texts po.parse is    *)
(* given                                                                   *)

MaxRecords == 4      \* most records of a sequence drawn from GroupRecords

PairingRecord(key, comment, str) ==
    [key |-> key, obsolete |-> FALSE, comments |-> comment, value |-> str]

\* msgctxt "c" / # t msgctxt "d" / # msgctxt "" / msgid "a" / # v msgid "b" /
\* msgid_plural "p" / msgstr "x" / # w msgstr "y"
GroupRecords ==
    {PairingRecord(kwMsgctxt, <<>>, <<99>>),
     PairingRecord(kwMsgctxt, <<ParseComment(<<32, 116>>)>>, <<100>>),
     PairingRecord(kwMsgctxt, <<ParseComment(<<>>)>>, <<>>),
     PairingRecord(kwMsgid, <<>>, <<97>>),
     PairingRecord(kwMsgid, <<ParseComment(<<32, 118>>)>>, <<98>>),
     PairingRecord(kwMsgidPlural, <<>>, <<112>>),
     PairingRecord(kwMsgstr, <<>>, <<120>>),
     PairingRecord(kwMsgstr, <<ParseComment(<<32, 119>>)>>, <<121>>)}

\* the records of the texts of PoInputs that the lexer accepts
ParsedRecords ==
    {PairingRecords(r.lex) :
        r \in {q \in {RunLexer(c, 0, "none", FALSE, <<>>, 1) : c \in PoInputs} :
                  q.thrown = <<>>}}

InitGroup ==
    /\ records \in SeqsUpTo(GroupRecords, MaxRecords) \cup ParsedRecords
    /\ validation \in BOOLEAN
    /\ grouped = [kind |-> "none"] /\ normalized = [kind |-> "none"]
    /\ chunk = <<>> /\ lexI = 0 /\ state = "none" /\ escaped = FALSE /\ lex = <<>>
    /\ lineNumber = 1 /\ ppc = "idle" /\ result = [kind |-> "none"]
    /\ FoldIdle
    /\ RtIdle
    /\ MoIdle
    /\ StreamIdle
    /\ DuoIdle

\* data = this._handleValues(data) returns
HandleValuesReturn ==
    /\ grouped.kind = "none"
    /\ \E g \in {HandleValues(records, 1, <<>>, <<>>, <<>>, validation)} :
           /\ g.thrown = <<>>
           /\ grouped' = [kind |-> "entries", entries |-> g.entries]
    /\ UNCHANGED <<records, normalized, foldVars, poVars, rtVars, moVars, streamVars,
                   duoVars>>

\* data = this._handleValues(data) throws
HandleValuesThrow ==
    /\ grouped.kind = "none"
    /\ \E g \in {HandleValues(records, 1, <<>>, <<>>, <<>>, validation)} :
           /\ g.thrown # <<>>
           /\ grouped' = g.thrown[1]
    /\ UNCHANGED <<records, normalized, foldVars, poVars, rtVars, moVars, streamVars,
                   duoVars>>

\* return this._normalize(data)
NormalizeReturn ==
    /\ grouped.kind = "entries"
    /\ normalized.kind = "none"
    /\ normalized' = Normalize(grouped.entries, kwUtf8, validation)
    /\ UNCHANGED <<records, grouped, foldVars, poVars, rtVars, moVars, streamVars,
                   duoVars>>

NextGroup ==
    \/ HandleValuesReturn
    \/ HandleValuesThrow
    \/ NormalizeReturn

SpecGroup == InitGroup /\ [][NextGroup]_vars

----------------------------------------------------------------------------
(* the context an entry takes *)

IsRecordOf(k, key) == k \in 1..Len(records) /\ ToLower(records[k].key) = key

\* the entry the msgid record k opens
EntryOpenedAt(k) ==
    grouped.entries[Cardinality({j \in 1..k : IsRecordOf(j, kwMsgid)})]

\* the msgid records after record i
MsgidsAfter(i) == {k \in (i + 1)..Len(records) : IsRecordOf(k, kwMsgid)}

ContextGiven(rec) == IF rec.value = <<>> THEN <<>> ELSE <<rec.value>>

\* the entry of the msgid record k has the context and the comments of the
\* msgctxt record i, its own comments when that record has none
TakesContext(i, k) ==
    /\ EntryOpenedAt(k).msgctxt = ContextGiven(records[i])
    /\ records[i].comments # <<>> => EntryOpenedAt(k).comments = records[i].comments
    /\ (records[i].comments = <<>> /\ records[k].comments # <<>>)
          => EntryOpenedAt(k).comments = records[k].comments

\* the entries opened by a msgid record that no msgctxt record precedes
\* since the msgid record before it have no context
NoContextTwice ==
    \A k \in 1..Len(records) :
        (IsRecordOf(k, kwMsgid)
         /\ \A i \in 1..(k - 1) : IsRecordOf(i, kwMsgctxt) => MsgidsAfter(i) \cap 1..(k - 1) # {})
        => EntryOpenedAt(k).msgctxt = <<>>

\* C23 as stated: the value of a msgctxt record becomes the context of the
\* next msgid record after it, with the comments of the msgctxt record (the
\* msgid's own when it has none), and an entry that no msgctxt record
\* precedes since the entry before it has no context.
C23_ContextToNextMsgid ==
    grouped.kind = "entries" =>
        /\ \A i \in 1..Len(records) :
               (IsRecordOf(i, kwMsgctxt) /\ MsgidsAfter(i) # {})
               => TakesContext(i, Min(MsgidsAfter(i)))
        /\ NoContextTwice

\* C23 amended: the value of a msgctxt record becomes the context of the
\* msgid record that comes right after it, with the comments of the msgctxt
\* record (the msgid's own when it has none); the entry of every other msgid
\* record has no context.
C23_ContextToNextMsgidAmended ==
    grouped.kind = "entries" =>
        \A k \in 1..Len(records) :
            IsRecordOf(k, kwMsgid) =>
                IF IsRecordOf(k - 1, kwMsgctxt)
                    THEN TakesContext(k - 1, k)
                    ELSE EntryOpenedAt(k).msgctxt = <<>>

\* # t msgctxt "d" / # v msgid "b" / msgid "a" / msgstr "x" has been grouped:
\* the first entry has the context d and the comment t, the second entry has
\* no context
C23_Witness ==
    /\ grouped.kind = "entries"
    /\ Len(records) = 4 /\ Len(grouped.entries) = 2
    /\ IsRecordOf(1, kwMsgctxt) /\ records[1].comments # <<>> /\ records[1].value = <<100>>
    /\ IsRecordOf(2, kwMsgid) /\ records[2].comments # <<>>
    /\ IsRecordOf(3, kwMsgid)
    /\ grouped.entries[1].msgctxt = <<<<100>>>>
    /\ grouped.entries[1].comments = records[1].comments
    /\ grouped.entries[2].msgctxt = <<>>

----------------------------------------------------------------------------
(* strict validation, one entry after another *)

IsHeaderEntry(e) == ~e.obsolete /\ e.msgctxt = <<>> /\ e.msgid = <<>>

\* the number nplurals=N of the Plural-Forms header of a header block, 1 when
\* the block has no such header or no number other than 0 in it
NpluralsNamed(block) ==
    LET headers == parseHeader(block)
        named == IF MapHas(headers, kwPluralForms)
                    THEN MatchNplurals(MapGet(headers, kwPluralForms))
                    ELSE <<>>
    IN  IF named = <<>> \/ DigitsValue(named[1], 0) = 0 THEN 1
        ELSE DigitsValue(named[1], 0)

\* nplurals when entry k is validated: that of the first header entry among
\* the entries 1..k, 1 when there is none
NpluralsInEffect(entries, k) ==
    LET hs == {h \in 1..k : IsHeaderEntry(entries[h])}
    IN  IF hs = {} \/ entries[Min(hs)].msgstr = <<>> THEN 1
        ELSE NpluralsNamed(entries[Min(hs)].msgstr[1][1])

\* the table of the entries before entry k, built without validation
TableBefore(entries, k) == Normalize(SubSeq(entries, 1, k - 1), kwUtf8, FALSE)

\* what reading entry k raises, given only the entry, the table of the
\* entries before it and nplurals in effect: <<>> when it is accepted
RaisedAt(entries, k, before) ==
    LET e == entries[k]
        ctx == IF e.msgctxt = <<>> THEN <<>> ELSE e.msgctxt[1]
        section == IF MapHas(before.translations, ctx) THEN before.translations
                   ELSE MapPut(before.translations, ctx, <<>>)
    IN  IF e.obsolete THEN <<>>
        ELSE IF before.headers = <<>> /\ IsHeaderEntry(e) /\ e.msgstr = <<>>
            THEN <<[kind |-> "TypeError", what |-> "msgstr[0]", at |-> k, obsolete |-> FALSE]>>
        ELSE ValidateToken(TRUE, e, section, ctx, NpluralsInEffect(entries, k), k)

\* the entries that fail, each read after the entries before it were accepted
FailingEntries(entries) ==
    {k \in 1..Len(entries) :
        /\ TableBefore(entries, k).kind = "table"
        /\ RaisedAt(entries, k, TableBefore(entries, k).table) # <<>>}

\* C24: a strict _normalize raises what the first failing entry in source
\* order raises, an entry failing or not by itself, the table of the entries
\* before it and nplurals in effect (1 until a header entry is read, and
\* when its Plural-Forms is absent or unreadable); it returns a table when
\* no entry fails.
C24_ValidationLocal ==
    (validation /\ normalized.kind # "none") =>
        IF FailingEntries(grouped.entries) = {}
            THEN normalized.kind = "table"
            ELSE <<normalized>> =
                   RaisedAt(grouped.entries, Min(FailingEntries(grouped.entries)),
                            TableBefore(grouped.entries,
                                        Min(FailingEntries(grouped.entries))).table)

\* a strict parse has raised the range error of a first entry that has three
\* plural forms, nplurals being 1 still, although the header entry that
\* comes second names nplurals=3
C24_Witness ==
    /\ validation
    /\ normalized.kind = "Range" /\ normalized.what = "plural" /\ normalized.at = 1
    /\ Len(grouped.entries) = 2
    /\ MsgstrCount(grouped.entries[1]) = 3
    /\ IsHeaderEntry(grouped.entries[2])
    /\ NpluralsInEffect(grouped.entries, 2) = 3

----------------------------------------------------------------------------
(* po.compile with the sort option, on tables that hold regular and        *)
(* obsolete entries: the order of the blocks and the prefix of the lines.  *)

InitPoSort ==
    /\ result \in {[kind |-> "table", table |-> t] : t \in MoInputs}
    /\ chunk = <<>> /\ lexI = 0 /\ state = "none" /\ escaped = FALSE /\ lex = <<>>
    /\ lineNumber = 1 /\ validation = FALSE /\ ppc = "done"
    /\ sort \in SortOptions
    /\ foldLength \in PoFoldLengths
    /\ escapeCharacters = TRUE
    /\ valueRaw = <<>> /\ value = <<>> /\ pos = 0 /\ lines = <<>> /\ fpc = "idle"
    /\ rendered = <<>>
    /\ cpc = "start" /\ compiled = <<>> /\ parsed = [kind |-> "none"] /\ recompiled = <<>>
    /\ callerTable = <<>>
    /\ MoIdle
    /\ StreamIdle
    /\ DuoIdle
    /\ GroupIdle

NextPoSort == CompileTable

SpecPoSort == InitPoSort /\ [][NextPoSort]_vars

\* the physical lines of a text, grouped into the blocks that an empty
\* line separates
RECURSIVE BlocksOfLines(_, _)
BlocksOfLines(ls, acc) ==
    LET closed == IF acc = <<>> THEN <<>> ELSE <<acc>>
    IN  IF ls = <<>> THEN closed
        ELSE IF Head(ls) = <<>> THEN closed \o BlocksOfLines(Tail(ls), <<>>)
        ELSE BlocksOfLines(Tail(ls), Append(acc, Head(ls)))

\* text.split("\n")
RECURSIVE PhysicalLines(_, _)
PhysicalLines(text, from) ==
    IF from > Len(text) + 1 THEN <<>>
    ELSE LET end == Min({k \in from..Len(text) : text[k] = Chr.nl} \cup {Len(text) + 1})
         IN  <<SubSeq(text, from, end - 1)>> \o PhysicalLines(text, end + 1)

WrittenBlocks == BlocksOfLines(PhysicalLines(compiled, 1), <<>>)

BeginsWith(line, prefix) ==
    Len(line) >= Len(prefix) /\ SubSeq(line, 1, Len(prefix)) = prefix

\* the entries of the table handed to compile, the header entry left out
RegularDrawn == PrepareSection(result.table.translations)

ObsoleteDrawn ==
    IF result.table.obsolete = <<>> THEN <<>> ELSE PrepareSection(result.table.obsolete[1])

\* msgid ""
HeaderKeyLine == kwMsgid \o <<Chr.sp, Chr.dq, Chr.dq>>

\* the header block is first, the blocks of the regular entries follow and
\* hold no obsolete line, the blocks of the obsolete entries are last
HeaderRegularObsolete(blocks) ==
    /\ Len(blocks) = 1 + Len(RegularDrawn) + Len(ObsoleteDrawn)
    /\ \E j \in 1..Len(blocks[1]) : blocks[1][j] = HeaderKeyLine
    /\ \A b \in 1..(1 + Len(RegularDrawn)) :
            \A j \in 1..Len(blocks[b]) : ~BeginsWith(blocks[b][j], obsoletePrefix)
    /\ \A b \in (2 + Len(RegularDrawn))..Len(blocks) :
            \E j \in 1..Len(blocks[b]) :
                BeginsWith(blocks[b][j], obsoletePrefix \o kwMsgid \o <<Chr.sp, Chr.dq>>)

\* the lines of a block that do not begin with the obsolete prefix
UnmarkedLines(block) == SelectSeq(block, LAMBDA l : ~BeginsWith(l, obsoletePrefix))

\* the comment lines a regular entry with these comments is written with
DrawnCommentLines(entry) ==
    IF entry.comments = <<>> \/ DrawComments(entry.comments[1], eolDefault) = <<>>
        THEN <<>>
        ELSE PhysicalLines(DrawComments(entry.comments[1], eolDefault), 1)

\* the lines of the block without the prefix are the comment lines of one
\* obsolete entry, written as for a regular entry, and they open the block
CommentsUnmarkedOnly(block) ==
    LET plain == UnmarkedLines(block)
    IN  /\ \E k \in 1..Len(ObsoleteDrawn) : plain = DrawnCommentLines(ObsoleteDrawn[k])
        /\ SubSeq(block, 1, Len(plain)) = plain

\* C25 as stated: in the text po.compile returns, under every sort option,
\* the header block is first, every obsolete entry is after every regular
\* entry, and every line of an obsolete entry (comment lines, key lines,
\* folded continuation lines) begins with "#~ ".
C25_ObsoleteLinesPrefixed ==
    cpc = "compiled"
        => /\ HeaderRegularObsolete(WrittenBlocks)
           /\ \A b \in (2 + Len(RegularDrawn))..Len(WrittenBlocks) :
                \A j \in 1..Len(WrittenBlocks[b]) :
                    BeginsWith(WrittenBlocks[b][j], obsoletePrefix)

\* C25 amended: under every sort option the header block is first and every
\* obsolete entry is after every regular entry; the key lines and the folded
\* continuation lines of an obsolete entry begin with "#~ ", its comment
\* lines are written first and as those of a regular entry, without it.
C25_ObsoleteLinesPrefixedAmended ==
    cpc = "compiled"
        => /\ HeaderRegularObsolete(WrittenBlocks)
           /\ \A b \in (2 + Len(RegularDrawn))..Len(WrittenBlocks) :
                CommentsUnmarkedOnly(WrittenBlocks[b])

\* a sorted compile that changed the order of the entries, with a regular
\* entry, an obsolete one that has comment lines and an obsolete one whose
\* value is folded
C25_Witness ==
    /\ cpc = "compiled"
    /\ sort # "false"
    /\ CompileBlocksSorted(result.table, sort) # CompileBlocks(result.table)
    /\ Len(RegularDrawn) >= 1
    /\ \E b \in (2 + Len(RegularDrawn))..Len(WrittenBlocks) :
            UnmarkedLines(WrittenBlocks[b]) # <<>>
    /\ \E b \in (2 + Len(RegularDrawn))..Len(WrittenBlocks) :
            \E j \in 1..Len(WrittenBlocks[b]) :
                BeginsWith(WrittenBlocks[b][j], obsoletePrefix \o <<Chr.dq>>)

----------------------------------------------------------------------------
(* The lines _addPOString writes, read back by the lexer *)

\* the lexer's fields after it read the text `rendered` from a new parser
RenderedLexed == RunLexer(rendered, 0, "none", FALSE, <<>>, 1)

RECURSIVE JoinedValues(_)
JoinedValues(tokens) ==
    IF tokens = <<>> THEN <<>> ELSE Head(tokens).value \o JoinedValues(Tail(tokens))

\* the values of the STRING tokens, joined
StringsReadBack(r) == JoinedValues(SelectSeq(r.lex, LAMBDA t : t.type = "string"))

\* the text between two quotes is a whole string literal: every quote in it
\* is escaped and it does not end inside an escape sequence
RECURSIVE LiteralBody(_, _)
LiteralBody(body, esc) ==
    IF body = <<>> THEN ~esc
    ELSE IF esc THEN LiteralBody(Tail(body), FALSE)
    ELSE IF Head(body) = Chr.dq THEN FALSE
    ELSE LiteralBody(Tail(body), Head(body) = Chr.bs)

\* a physical line, after the key if it has one, is one closed string literal
ClosedLiteral(line) ==
    LET quoted == IF BeginsWith(line, kwMsgstr \o <<Chr.sp>>)
                     THEN SubSeq(line, Len(kwMsgstr) + 2, Len(line))
                     ELSE line
    IN  /\ Len(quoted) >= 2
        /\ quoted[1] = Chr.dq /\ quoted[Len(quoted)] = Chr.dq
        /\ LiteralBody(SubSeq(quoted, 2, Len(quoted) - 1), FALSE)

\* C26: for every value and every fold width 0 or more, with escaping on,
\* the lexer reads the lines _addPOString wrote back to a key and STRING
\* tokens whose joined values are the value, and every written line is a
\* closed string literal.
C26_WrittenLinesReadBack ==
    (fpc = "done" /\ escapeCharacters)
        => /\ RenderedLexed.thrown = <<>>
           /\ StringsReadBack(RenderedLexed) = valueRaw
           /\ \A j \in 1..Len(PhysicalLines(rendered, 1)) :
                ClosedLiteral(PhysicalLines(rendered, 1)[j])

----------------------------------------------------------------------------
(* The obsolete mark of the lexer's tokens.  The inputs are made of the    *)
(* pieces that matter to it: a key, a quote, white space, # ~ and CR.      *)

MaxMarkPieces == 5       \* most pieces an input of the lexer is made of here

\* msgid " space newline # ~ carriage-return
MarkPieces ==
    {kwMsgid, <<Chr.dq>>, <<Chr.sp>>, <<Chr.nl>>, <<Chr.hash>>, <<Chr.tilde>>, <<Chr.cr>>}

MarkInputs == {Cat(ps) : ps \in SeqsUpTo(MarkPieces, MaxMarkPieces)}

InitLexMark ==
    /\ chunk \in MarkInputs
    /\ validation = FALSE
    /\ ParserConstructed
    /\ FoldIdle
    /\ RtIdle
    /\ MoIdle
    /\ StreamIdle
    /\ DuoIdle
    /\ GroupIdle

SpecLexMark == InitLexMark /\ [][NextLex]_vars

\* this round of the lexer pushed a token
TokenPushed == Len(lex') = Len(lex) + 1

\* the token pushed is a key that is marked exactly when the lexer was in
\* OBSOLETE at its first character, or a string or a comment without mark
PushedMarkedByState ==
    TokenPushed
        => LET t == lex'[Len(lex')]
           IN  IF t.type = "key" THEN t.obsolete <=> (state = "obsolete")
               ELSE ~t.obsolete

\* the tokens pushed before keep their type and their mark
MarksKept ==
    \A k \in 1..Len(lex) :
        lex'[k].type = lex[k].type /\ lex'[k].obsolete = lex[k].obsolete

\* OBSOLETE is entered on a ~ that is the character after a #
EnteredOnHashTilde ==
    (state' = "obsolete" /\ state # "obsolete")
        => /\ chunk[lexI + 1] = Chr.tilde
           /\ lexI >= 1 /\ chunk[lexI] = Chr.hash

\* a key pushed in OBSOLETE ends it, and every marked key comes right
\* after the comment token of its own marker
OneKeyPerMarker ==
    /\ (TokenPushed /\ state = "obsolete") => state' # "obsolete"
    /\ \A k \in 1..Len(lex') :
            lex'[k].obsolete
                => /\ k > 1
                   /\ lex'[k - 1].type = "comments"
                   /\ lex'[k - 1].value = <<Chr.tilde>>

\* a round of the for loop of _lexer that did not throw
IsLexerRound == ppc = "lexing" /\ ppc' = "lexing" /\ lexI < Len(chunk)

\* C27: a KEY token is marked obsolete exactly when the lexer is in OBSOLETE
\* at the key's first character; OBSOLETE is entered only on a ~ immediately
\* after a #; one marker marks at most one key; STRING and COMMENT tokens
\* are never marked.
C27_ObsoleteMark ==
    [][IsLexerRound
        => /\ PushedMarkedByState
           /\ MarksKept
           /\ EnteredOnHashTilde
           /\ OneKeyPerMarker]_vars

----------------------------------------------------------------------------
(* The parser of the stream: when it is made *)

----------------------------------------------------------------------------
(* foldLine's loop under fair scheduling: the call, once entered, keeps    *)
(* taking its steps.  The values hold a character "." does not match.      *)

MaxLiveLen == 2      \* longest raw value of the calls followed to their end

\* a space backslash newline U+2028
FoldAlphabet == {Chr.a, Chr.sp, Chr.bs, Chr.nl, 8232}

\* no call of _addPOString is under way
InitFoldLive ==
    /\ FoldIdle
    /\ PoIdle
    /\ RtIdle
    /\ MoIdle
    /\ StreamIdle
    /\ DuoIdle
    /\ GroupIdle

\* _addPOString("msgstr", valueRaw) is called by a compiler with a fold
\* width of 1 or more
AddPOStringCall ==
    /\ fpc = "idle"
    /\ valueRaw' \in SeqsUpTo(FoldAlphabet, MaxLiveLen)
    /\ foldLength' \in 1..MaxFold
    /\ escapeCharacters' \in BOOLEAN
    /\ fpc' = "start"
    /\ UNCHANGED <<value, pos, lines, rendered, poVars, rtVars, moVars, streamVars, duoVars,
                   groupVars>>

NextFoldLive ==
    \/ AddPOStringCall
    \/ AddPOStringEscape
    \/ FoldLineStep
    \/ FoldLineReturn
    \/ AddPOStringReturn

\* a call that was entered keeps taking its steps
SpecFoldLive == InitFoldLive /\ [][NextFoldLive]_vars /\ WF_vars(NextFold)

\* an iteration of foldLine pushes one line that is not empty and moves pos
\* on by the length of that line
IterationAdvances ==
    (fpc = "fold" /\ fpc' = "fold")
        => /\ Len(lines') = Len(lines) + 1
           /\ SubSeq(lines', 1, Len(lines)) = lines
           /\ lines'[Len(lines')] # <<>>
           /\ pos' = pos + Len(lines'[Len(lines')])

\* foldLine returns lines that, put end to end, are the string it was given
ReturnsWholeString == (fpc = "fold" /\ fpc' = "join") => Cat(lines) = value

\* C29: foldLine terminates for every string and every maxLen >= 1; each
\* iteration pushes a line that is not empty and moves pos on by its
\* length; the lines returned, put end to end, are the string.
C29_FoldLineTerminates ==
    /\ (fpc = "start") ~> (fpc = "done")
    /\ [][IterationAdvances /\ ReturnsWholeString]_vars

----------------------------------------------------------------------------
(* The completion callbacks of the stream *)

\* the invocation this step is: _transform while chunks are left to write,
\* _flush after them
InvocationNow == IF toWrite # <<>> THEN "transform" ELSE "flush"

\* the fields of the transform when the lexer's part of the invocation is
\* over; its error is what the lexer threw
AfterLexer ==
    IF toWrite # <<>> THEN AdapterTransform(adapter, Head(toWrite), initialTreshold, kwLatin1)
    ELSE AdapterFlush(adapter, kwLatin1)

\* the invocation called its callback once, and with the lexer's error when
\* the lexer threw, in which case it pushed no table
CallbackOnce ==
    /\ Len(adapter'.called) = Len(adapter.called) + 1
    /\ SubSeq(adapter'.called, 1, Len(adapter.called)) = adapter.called
    /\ adapter'.called[Len(adapter'.called)].by = InvocationNow
    /\ AfterLexer.error # <<>>
        => /\ adapter'.called[Len(adapter'.called)].error = AfterLexer.error
           /\ pushed' = pushed

\* C30: every invocation of _transform and of _flush calls its completion
\* callback exactly once on every path; when the lexer throws, the callback
\* gets that error and no table is pushed.
C30_CallbackExactlyOnce == [][tpc = "writing" => CallbackOnce]_vars

====
